---- MODULE Spec2Model ----
(***************************************************************************)
(* A model of the 6502 execution unit of rustynes (src/src/cpu.rs).        *)
(*                                                                         *)
(* The processor is the record cpu (the fields of struct Cpu); the memory  *)
(* behind nes::Memory is the sparse function mem together with the byte    *)
(* rest held by every address mem does not list.  Every handler of cpu.rs  *)
(* is an operator from (cpu, mem) to the processor and memory it leaves.   *)
(*                                                                         *)
(* Rust's integer arithmetic depends on the build: with overflow checks    *)
(* (the debug profile) an addition that leaves its type panics, without    *)
(* them (the release profile) it wraps.  The operators compute the wrapped *)
(* value and raise the field ovf of the processor record when an addition  *)
(* left its type; a step of a build with overflow_checks then panics.      *)
(***************************************************************************)
EXTENDS Integers, Sequences, FiniteSets, TLC

VARIABLES cpu, mem, rest, overflow_checks, panicked, log

vars == <<cpu, mem, rest, overflow_checks, panicked, log>>

(***************************************************************************)
(* Bounds of the model.                                                    *)
(***************************************************************************)
\* bytes are drawn from the values within EdgeRadius of 0x00, 0x80 and 0xFF
EdgeRadius == 1
\* the number of operations in one behaviour
MaxSteps == 2

(***************************************************************************)
(* Fixed-width arithmetic.                                                 *)
(***************************************************************************)
U8 == 0 .. 255
U16 == 0 .. 65535

Pow2(k) == 2 ^ k

\* bit k of v
Bit(v, k) == (v \div Pow2(k)) % 2

\* v as i8 / v as i16
AsI8(v) == IF v >= 128 THEN v - 256 ELSE v
AsI16(v) == IF v >= 32768 THEN v - 65536 ELSE v

\* the bitwise operators of u8
BitAnd(v, w) == (Bit(v,0)*Bit(w,0)) + 2*(Bit(v,1)*Bit(w,1)) + 4*(Bit(v,2)*Bit(w,2))
  + 8*(Bit(v,3)*Bit(w,3)) + 16*(Bit(v,4)*Bit(w,4)) + 32*(Bit(v,5)*Bit(w,5))
  + 64*(Bit(v,6)*Bit(w,6)) + 128*(Bit(v,7)*Bit(w,7))
BitOr(v, w) == v + w - BitAnd(v, w)
BitXor(v, w) == v + w - 2 * BitAnd(v, w)

\* the page of an address: addr & 0xFF00
Page(addr) == (addr \div 256) * 256

(***************************************************************************)
(* mod flag                                                                *)
(***************************************************************************)
SIGN == 128
OVERFLOW == 64
BREAK == 16
DECIMAL == 8
INTERRUPT == 4
ZERO == 2
CARRY == 1

(***************************************************************************)
(* The memory interface (nes::Memory, mem.mmu).                            *)
(***************************************************************************)
read_u8(m, addr) == IF addr \in DOMAIN m THEN m[addr] ELSE rest

write_u8(m, addr, data) ==
  [ad \in (DOMAIN m) \cup {addr} |-> IF ad = addr THEN data ELSE m[ad]]

read_u16(m, addr) == read_u8(m, addr) + 256 * read_u8(m, (addr + 1) % 65536)

\* two memories hold the same byte at every address
SameMem(m1, m2) ==
  \A ad \in (DOMAIN m1) \cup (DOMAIN m2) : read_u8(m1, ad) = read_u8(m2, ad)

(***************************************************************************)
(* struct Cpu and Cpu::new                                                 *)
(***************************************************************************)
make_address(c, d) == (d * 256) + c

new ==
  [a |-> 0, x |-> 0, y |-> 0, sp |-> 255, pc |-> 65532,
   carry |-> FALSE, zero |-> FALSE, interrupt |-> FALSE, decimal |-> FALSE,
   brk |-> FALSE, overflow |-> FALSE, sign |-> FALSE,
   tick_count |-> 0, is_debugging |-> FALSE, current_opcode |-> 0,
   ovf |-> FALSE]

\* what a handler leaves: the processor, the memory and the value it returns
Res(c, m, v) == [cpu |-> c, mem |-> m, val |-> v]

\* the u16 additions of the handlers: the wrapped sum, ovf raised when it wrapped
Add16(c, v, n) == [cpu |-> [c EXCEPT !.ovf = @ \/ (v + n > 65535)], val |-> (v + n) % 65536]

AddPc(c, n) == [c EXCEPT !.pc = (@ + n) % 65536, !.ovf = @ \/ (c.pc + n > 65535)]

\* tick_count is a u32; the behaviours of the model stay far below 2^32 ticks,
\* where the addition is exact
AddTick(c, n) == [c EXCEPT !.tick_count = @ + n]

(***************************************************************************)
(* The stack unit.                                                         *)
(***************************************************************************)
\* mutant: the stack pointer is decremented before the write
push_u8_predecrement(c, m, data) ==
  LET sp1 == IF c.sp = 0 THEN 255 ELSE c.sp - 1
  IN  Res([c EXCEPT !.sp = sp1], write_u8(m, 256 + sp1, data), 0)

push_u8(c, m, data) ==
  Res([c EXCEPT !.sp = IF c.sp = 0 THEN 255 ELSE c.sp - 1],
      write_u8(m, 256 + c.sp, data), 0)

\* mutant: the low byte is pushed first
push_u16_low_first(c, m, data) ==
  LET r1 == push_u8(c, m, data % 256)
  IN  push_u8(r1.cpu, r1.mem, data \div 256)

push_u16(c, m, data) ==
  LET r1 == push_u8(c, m, data \div 256)
  IN  push_u8(r1.cpu, r1.mem, data % 256)

\* mutant: the unused bit 0x20 follows the break flag
push_status_unused_follows_break(c, m) ==
  LET status == (IF c.sign THEN SIGN ELSE 0) + (IF c.overflow THEN OVERFLOW ELSE 0)
              + (IF c.brk THEN BREAK + 32 ELSE 0) + (IF c.decimal THEN DECIMAL ELSE 0)
              + (IF c.interrupt THEN INTERRUPT ELSE 0) + (IF c.zero THEN ZERO ELSE 0)
              + (IF c.carry THEN CARRY ELSE 0)
  IN  push_u8(c, m, status)

push_status(c, m) ==
  LET status == (IF c.sign THEN SIGN ELSE 0) + (IF c.overflow THEN OVERFLOW ELSE 0)
              + (IF c.brk THEN BREAK ELSE 0) + (IF c.decimal THEN DECIMAL ELSE 0)
              + (IF c.interrupt THEN INTERRUPT ELSE 0) + (IF c.zero THEN ZERO ELSE 0)
              + (IF c.carry THEN CARRY ELSE 0)
  IN  push_u8(c, m, status)

pull_u8(c, m) ==
  LET c1 == [c EXCEPT !.sp = IF c.sp = 255 THEN 0 ELSE c.sp + 1]
  IN  Res(c1, m, read_u8(m, 256 + c1.sp))

pull_u16(c, m) ==
  LET r1 == pull_u8(c, m)
      r2 == pull_u8(r1.cpu, r1.mem)
  IN  Res(r2.cpu, r2.mem, make_address(r1.val, r2.val))

\* mutant: the break flag is read from the unused bit 0x20
pull_status_break_from_unused(c, m) ==
  LET r == pull_u8(c, m)
      status == r.val
  IN  Res([r.cpu EXCEPT !.sign = (BitAnd(status, SIGN) = SIGN),
                        !.overflow = (BitAnd(status, OVERFLOW) = OVERFLOW),
                        !.brk = (BitAnd(status, 32) = 32),
                        !.decimal = (BitAnd(status, DECIMAL) = DECIMAL),
                        !.interrupt = (BitAnd(status, INTERRUPT) = INTERRUPT),
                        !.zero = (BitAnd(status, ZERO) = ZERO),
                        !.carry = (BitAnd(status, CARRY) = CARRY)],
          r.mem, 0)

pull_status(c, m) ==
  LET r == pull_u8(c, m)
      status == r.val
  IN  Res([r.cpu EXCEPT !.sign = (BitAnd(status, SIGN) = SIGN),
                        !.overflow = (BitAnd(status, OVERFLOW) = OVERFLOW),
                        !.brk = (BitAnd(status, BREAK) = BREAK),
                        !.decimal = (BitAnd(status, DECIMAL) = DECIMAL),
                        !.interrupt = (BitAnd(status, INTERRUPT) = INTERRUPT),
                        !.zero = (BitAnd(status, ZERO) = ZERO),
                        !.carry = (BitAnd(status, CARRY) = CARRY)],
          r.mem, 0)

(***************************************************************************)
(* The addressing-mode resolvers.                                          *)
(***************************************************************************)
zero_page(c, m, arg) == Res(c, m, read_u8(m, arg))

zero_page_x(c, m, arg) == Res(c, m, read_u8(m, (arg + c.x) % 256))

zero_page_y(c, m, arg) == Res(c, m, read_u8(m, (arg + c.y) % 256))

absolute(c, m, arg, d) == Res(c, m, read_u8(m, make_address(arg, d)))

\* the indexed address base + index, one tick charged on a page cross when check_page
Indexed_no_page_charge(c, m, base, index, check_page) ==
  LET s == Add16(c, base, index)
  IN  Res(s.cpu, m, s.val)

Indexed(c, m, base, index, check_page) ==
  LET s == Add16(c, base, index)
      c1 == IF check_page /\ Page(base) # Page(s.val) THEN AddTick(s.cpu, 1) ELSE s.cpu
  IN  Res(c1, m, s.val)

absolute_x(c, m, arg, d, check_page) ==
  LET r == Indexed(c, m, make_address(arg, d), c.x, check_page)
  IN  Res(r.cpu, m, read_u8(m, r.val))

absolute_y(c, m, arg, d, check_page) ==
  LET r == Indexed(c, m, make_address(arg, d), c.y, check_page)
  IN  Res(r.cpu, m, read_u8(m, r.val))

indirect_x(c, m, arg) ==
  LET new_addr == read_u16(m, (arg + c.x) % 256)
  IN  Res(c, m, read_u8(m, new_addr))

indirect_y(c, m, arg, check_page) ==
  LET r == Indexed(c, m, read_u16(m, arg), c.y, check_page)
  IN  Res(r.cpu, m, read_u8(m, r.val))

zero_page_write(c, m, arg, data) == Res(c, write_u8(m, arg, data), 0)

\* mutant: the write resolver does not wrap the indexed zero-page address
zero_page_x_write_unwrapped(c, m, arg, data) == Res(c, write_u8(m, arg + c.x, data), 0)

zero_page_x_write(c, m, arg, data) == Res(c, write_u8(m, (arg + c.x) % 256, data), 0)

zero_page_y_write(c, m, arg, data) == Res(c, write_u8(m, (arg + c.y) % 256, data), 0)

absolute_write(c, m, arg, d, data) == Res(c, write_u8(m, make_address(arg, d), data), 0)

absolute_x_write(c, m, arg, d, data) ==
  LET s == Add16(c, make_address(arg, d), c.x)
  IN  Res(s.cpu, write_u8(m, s.val, data), 0)

absolute_y_write(c, m, arg, d, data) ==
  LET s == Add16(c, make_address(arg, d), c.y)
  IN  Res(s.cpu, write_u8(m, s.val, data), 0)

indirect_x_write(c, m, arg, data) ==
  LET new_addr == read_u16(m, (arg + c.x) % 256)
  IN  Res(c, write_u8(m, new_addr, data), 0)

indirect_y_write(c, m, arg, data) ==
  LET s == Add16(c, read_u16(m, arg), c.y)
  IN  Res(s.cpu, write_u8(m, s.val, data), 0)

(***************************************************************************)
(* Parts the handlers share.                                               *)
(***************************************************************************)
\* the operand bytes: mem.mmu.read_u8(self.pc + 1), mem.mmu.read_u8(self.pc + 2)
Arg1(c, m) ==
  LET s == Add16(c, c.pc, 1) IN Res(s.cpu, m, read_u8(m, s.val))

Arg2(c, m) ==
  LET s == Add16(c, c.pc, 2) IN Res(s.cpu, m, read_u8(m, s.val))

\* let arg1 = ...; let arg2 = ...; at the head of a handler
Operands(c, m) ==
  [cpu |-> Arg2(Arg1(c, m).cpu, m).cpu, arg1 |-> Arg1(c, m).val,
   arg2 |-> Arg2(Arg1(c, m).cpu, m).val]

\* a handler's first match on the opcode: the value its addressing mode resolves to;
\* f holds the operand bytes, and an opcode the handler has no arm for resolves to 0
ReadOperand(mode, f, m) ==
  CASE mode = "immediate" -> Res(f.cpu, m, f.arg1)
    [] mode = "accumulator" -> Res(f.cpu, m, f.cpu.a)
    [] mode = "zero_page" -> zero_page(f.cpu, m, f.arg1)
    [] mode = "zero_page_x" -> zero_page_x(f.cpu, m, f.arg1)
    [] mode = "zero_page_y" -> zero_page_y(f.cpu, m, f.arg1)
    [] mode = "absolute" -> absolute(f.cpu, m, f.arg1, f.arg2)
    [] mode = "absolute_x" -> absolute_x(f.cpu, m, f.arg1, f.arg2, TRUE)
    [] mode = "absolute_x_unchecked" -> absolute_x(f.cpu, m, f.arg1, f.arg2, FALSE)
    [] mode = "absolute_y" -> absolute_y(f.cpu, m, f.arg1, f.arg2, TRUE)
    [] mode = "indirect_x" -> indirect_x(f.cpu, m, f.arg1)
    [] mode = "indirect_y" -> indirect_y(f.cpu, m, f.arg1, TRUE)
    [] OTHER -> Res(f.cpu, m, 0)

\* a handler's match on the opcode that stores data through its addressing mode
WriteOperand(mode, c, m, f, data) ==
  CASE mode = "accumulator" -> Res([c EXCEPT !.a = data], m, 0)
    [] mode = "zero_page" -> zero_page_write(c, m, f.arg1, data)
    [] mode = "zero_page_x" -> zero_page_x_write(c, m, f.arg1, data)
    [] mode = "zero_page_y" -> zero_page_y_write(c, m, f.arg1, data)
    [] mode \in {"absolute_x", "absolute_x_unchecked"} ->
         absolute_x_write(c, m, f.arg1, f.arg2, data)
    [] mode = "absolute" -> absolute_write(c, m, f.arg1, f.arg2, data)
    [] mode = "absolute_y" -> absolute_y_write(c, m, f.arg1, f.arg2, data)
    [] mode = "indirect_x" -> indirect_x_write(c, m, f.arg1, data)
    [] mode = "indirect_y" -> indirect_y_write(c, m, f.arg1, data)
    [] OTHER -> Res(c, m, 0)

\* self.tick_count += t; self.pc += n
Charge(c, t, n) == AddPc(AddTick(c, t), n)

\* self.zero = v == 0; self.sign = (v & 0x80) == 0x80
SetZS(c, v) == [c EXCEPT !.zero = (v = 0), !.sign = (Bit(v, 7) = 1)]

\* and, eor, ora: self.a = na and the zero and sign flags of it
Logic(c, na) == SetZS([c EXCEPT !.a = na], na)

\* the tail of a read-modify-write handler: v is the resolved operand, nv the
\* processor and the new value; the value is stored and the opcode's cost charged
Store(form, w, value) == Res(Charge(w.cpu, form[2], form[3]), w.mem, value)

Modify(form, v, f, nv) ==
  Store(form, WriteOperand(form[1], nv.cpu, v.mem, f, nv.val), nv.val)

\* the tail of a store handler (sta, stx, sty)
StoreReg(form, f, m, data) ==
  Store(form, WriteOperand(form[1], f.cpu, m, f, data), data)

\* what a read-modify-write handler computes: the processor with its flags, the value
NewValue(c, value) == [cpu |-> SetZS(c, value), val |-> value]

(***************************************************************************)
(* The instruction handlers.  For a handler that serves several opcodes,   *)
(* name_form(op) is what its matches on self.current_opcode select: the    *)
(* addressing mode, the ticks and the bytes the program counter advances.  *)
(***************************************************************************)
\* mutant: the handler has no arm for the immediate opcode
adc_form_no_immediate(op) ==
  CASE op = \h65 -> <<"zero_page", 3, 2>>
    [] op = \h75 -> <<"zero_page_x", 4, 2>>
    [] op = \h6d -> <<"absolute", 4, 3>>
    [] op = \h7d -> <<"absolute_x", 4, 3>>
    [] op = \h79 -> <<"absolute_y", 4, 3>>
    [] op = \h61 -> <<"indirect_x", 6, 2>>
    [] op = \h71 -> <<"indirect_y", 5, 2>>
    [] OTHER -> <<"unknown", 0, 0>>

adc_form(op) ==
  CASE op = \h69 -> <<"immediate", 2, 2>>
    [] op = \h65 -> <<"zero_page", 3, 2>>
    [] op = \h75 -> <<"zero_page_x", 4, 2>>
    [] op = \h6d -> <<"absolute", 4, 3>>
    [] op = \h7d -> <<"absolute_x", 4, 3>>
    [] op = \h79 -> <<"absolute_y", 4, 3>>
    [] op = \h61 -> <<"indirect_x", 6, 2>>
    [] op = \h71 -> <<"indirect_y", 5, 2>>
    [] OTHER -> <<"unknown", 0, 0>>

adc_alu_wide_zero(c, value) ==
  LET total == c.a + value + (IF c.carry THEN 1 ELSE 0)
  IN  [c EXCEPT !.carry = total > 255,
                !.overflow = total > 255,
                !.zero = total = 0,
                !.sign = Bit(total, 7) = 1,
                !.a = total % 256]

adc_alu(c, value) ==
  LET total == c.a + value + (IF c.carry THEN 1 ELSE 0)
  IN  [c EXCEPT !.carry = total > 255,
                !.overflow = total > 255,
                !.zero = (total % 256) = 0,
                !.sign = Bit(total, 7) = 1,
                !.a = total % 256]

adc(c, m) ==
  LET form == adc_form(c.current_opcode)
      v == ReadOperand(form[1], Operands(c, m), m)
  IN  Res(Charge(adc_alu(v.cpu, v.val), form[2], form[3]), m, v.val)

and_form(op) ==
  CASE op = \h29 -> <<"immediate", 2, 2>>
    [] op = \h25 -> <<"zero_page", 3, 2>>
    [] op = \h35 -> <<"zero_page_x", 4, 2>>
    [] op = \h2d -> <<"absolute", 4, 3>>
    [] op = \h3d -> <<"absolute_x", 4, 3>>
    [] op = \h39 -> <<"absolute_y", 4, 3>>
    [] op = \h21 -> <<"indirect_x", 6, 2>>
    [] op = \h31 -> <<"indirect_y", 5, 2>>
    [] OTHER -> <<"unknown", 0, 0>>

and(c, m) ==
  LET form == and_form(c.current_opcode)
      v == ReadOperand(form[1], Operands(c, m), m)
  IN  Res(Charge(Logic(v.cpu, BitAnd(v.cpu.a, v.val)), form[2], form[3]), m, v.val)

asl_form(op) ==
  CASE op = \h0a -> <<"accumulator", 2, 1>>
    [] op = \h06 -> <<"zero_page", 5, 2>>
    [] op = \h16 -> <<"zero_page_x", 6, 2>>
    [] op = \h0e -> <<"absolute", 6, 3>>
    [] op = \h1e -> <<"absolute_x", 7, 3>>
    [] OTHER -> <<"unknown", 0, 0>>

asl_value(v) ==
  NewValue([v.cpu EXCEPT !.carry = (Bit(v.val, 7) = 1)], (v.val * 2) % 256)

asl(c, m) ==
  LET form == asl_form(c.current_opcode)
      f == Operands(c, m)
  IN  Modify(form, ReadOperand(form[1], f, m), f, asl_value(ReadOperand(form[1], f, m)))

\* the body the eight conditional branches share; c is the processor after
\* self.pc += 2, arg1 the operand as i8
\* (self.pc as i16 + 2i16 + arg1 as i16) as u16, and whether the i16 sum overflowed
BranchProbe(pc, arg1) ==
  [val |-> (AsI16(pc) + 2 + arg1) % 65536,
   ovf |-> (AsI16(pc) + 2 > 32767) \/ (AsI16(pc) + 2 + arg1 > 32767)
           \/ (AsI16(pc) + 2 + arg1 < -32768)]

\* the page test of a taken branch
BranchCross(c, probe) ==
  IF Page(c.pc) # Page(probe.val)
    THEN AddTick([c EXCEPT !.ovf = @ \/ probe.ovf], 1)
    ELSE [c EXCEPT !.ovf = @ \/ probe.ovf]

Taken_unsigned_offset(c, arg1) ==
  AddTick([BranchCross(c, BranchProbe(c.pc, arg1)) EXCEPT !.pc = (c.pc + (arg1 % 256)) % 65536], 1)

Taken(c, arg1) ==
  AddTick([BranchCross(c, BranchProbe(c.pc, arg1)) EXCEPT !.pc = (c.pc + arg1) % 65536], 1)

Branch(f1, m, taken) ==
  Res(AddTick(IF taken THEN Taken(AddPc(f1.cpu, 2), AsI8(f1.val)) ELSE AddPc(f1.cpu, 2), 2),
      m, f1.val)

bcc(c, m) == Branch(Arg1(c, m), m, ~c.carry)

bcs(c, m) == Branch(Arg1(c, m), m, c.carry)

beq(c, m) == Branch(Arg1(c, m), m, c.zero)

bit_form(op) ==
  CASE op = \h24 -> <<"zero_page", 3, 2>>
    [] op = \h2c -> <<"absolute", 4, 3>>
    [] OTHER -> <<"unknown", 0, 0>>

bit_alu(c, value) ==
  [c EXCEPT !.zero = (BitAnd(c.a, value) = 0),
            !.sign = (Bit(value, 7) = 1),
            !.overflow = (Bit(value, 6) = 1)]

bit(c, m) ==
  LET form == bit_form(c.current_opcode)
      v == ReadOperand(form[1], Operands(c, m), m)
  IN  Res(Charge(bit_alu(v.cpu, v.val), form[2], form[3]), m, v.val)

bmi(c, m) == Branch(Arg1(c, m), m, c.sign)

bne(c, m) == Branch(Arg1(c, m), m, ~c.zero)

bpl(c, m) == Branch(Arg1(c, m), m, ~c.sign)

\* brk after self.push_u16 left r: the break flag, the status push, the vector
brk_push(r) ==
  LET r2 == push_status([r.cpu EXCEPT !.brk = TRUE], r.mem)
  IN  Res(AddTick([r2.cpu EXCEPT !.interrupt = TRUE, !.pc = read_u16(r2.mem, 65534)], 7),
          r2.mem, 0)

brk(c, m) ==
  LET s == Add16(c, c.pc, 2)
  IN  brk_push(push_u16([s.cpu EXCEPT !.pc = s.val % 256], m, s.val % 256))

bvc(c, m) == Branch(Arg1(c, m), m, ~c.overflow)

bvs(c, m) == Branch(Arg1(c, m), m, c.overflow)

clc(c, m) == Res(AddTick(AddPc([c EXCEPT !.carry = FALSE], 1), 2), m, 0)

cld(c, m) == Res(AddTick(AddPc([c EXCEPT !.decimal = FALSE], 1), 2), m, 0)

cli(c, m) == Res(AddTick(AddPc([c EXCEPT !.interrupt = FALSE], 1), 2), m, 0)

clv(c, m) == Res(AddTick(AddPc([c EXCEPT !.overflow = FALSE], 1), 2), m, 0)

\* mutant: the carry is the outcome of a signed comparison
Compare_signed(c, r, value) ==
  SetZS([c EXCEPT !.carry = (AsI8(r) >= AsI8(value))], (r - value) % 256)

\* the comparison of register r with value: cmp, cpx and cpy
Compare(c, r, value) == SetZS([c EXCEPT !.carry = (r >= value)], (r - value) % 256)

cmp_form(op) ==
  CASE op = \hc9 -> <<"immediate", 2, 2>>
    [] op = \hc5 -> <<"zero_page", 3, 2>>
    [] op = \hd5 -> <<"zero_page_x", 4, 2>>
    [] op = \hcd -> <<"absolute", 4, 3>>
    [] op = \hdd -> <<"absolute_x", 4, 3>>
    [] op = \hd9 -> <<"absolute_y", 4, 3>>
    [] op = \hc1 -> <<"indirect_x", 6, 2>>
    [] op = \hd1 -> <<"indirect_y", 5, 2>>
    [] OTHER -> <<"unknown", 0, 0>>

cmp(c, m) ==
  LET form == cmp_form(c.current_opcode)
      v == ReadOperand(form[1], Operands(c, m), m)
  IN  Res(Charge(Compare(v.cpu, v.cpu.a, v.val), form[2], form[3]), m, v.val)

cpx_form(op) ==
  CASE op = \he0 -> <<"immediate", 2, 2>>
    [] op = \he4 -> <<"zero_page", 3, 2>>
    [] op = \hec -> <<"absolute", 4, 3>>
    [] OTHER -> <<"unknown", 0, 0>>

cpx(c, m) ==
  LET form == cpx_form(c.current_opcode)
      v == ReadOperand(form[1], Operands(c, m), m)
  IN  Res(Charge(Compare(v.cpu, v.cpu.x, v.val), form[2], form[3]), m, v.val)

cpy_form(op) ==
  CASE op = \hc0 -> <<"immediate", 2, 2>>
    [] op = \hc4 -> <<"zero_page", 3, 2>>
    [] op = \hcc -> <<"absolute", 4, 3>>
    [] OTHER -> <<"unknown", 0, 0>>

cpy(c, m) ==
  LET form == cpy_form(c.current_opcode)
      v == ReadOperand(form[1], Operands(c, m), m)
  IN  Res(Charge(Compare(v.cpu, v.cpu.y, v.val), form[2], form[3]), m, v.val)

dec_form(op) ==
  CASE op = \hc6 -> <<"zero_page", 5, 2>>
    [] op = \hd6 -> <<"zero_page_x", 6, 2>>
    [] op = \hce -> <<"absolute", 6, 3>>
    [] op = \hde -> <<"absolute_x", 7, 3>>
    [] OTHER -> <<"unknown", 0, 0>>

dec_value(v) == NewValue(v.cpu, IF v.val = 0 THEN 255 ELSE v.val - 1)

dec(c, m) ==
  LET form == dec_form(c.current_opcode)
      f == Operands(c, m)
  IN  Modify(form, ReadOperand(form[1], f, m), f, dec_value(ReadOperand(form[1], f, m)))

\* the tail of inx, iny, dex, dey: c holds the new register value
Implied(c, m, value) == Res(AddTick(AddPc(SetZS(c, value), 1), 2), m, value)

dex(c, m) == Implied([c EXCEPT !.x = IF c.x = 0 THEN 255 ELSE c.x - 1], m,
                     IF c.x = 0 THEN 255 ELSE c.x - 1)

dey(c, m) == Implied([c EXCEPT !.y = IF c.y = 0 THEN 255 ELSE c.y - 1], m,
                     IF c.y = 0 THEN 255 ELSE c.y - 1)

eor_form(op) ==
  CASE op = \h49 -> <<"immediate", 2, 2>>
    [] op = \h45 -> <<"zero_page", 3, 2>>
    [] op = \h55 -> <<"zero_page_x", 4, 2>>
    [] op = \h4d -> <<"absolute", 4, 3>>
    [] op = \h5d -> <<"absolute_x", 4, 3>>
    [] op = \h59 -> <<"absolute_y", 4, 3>>
    [] op = \h41 -> <<"indirect_x", 6, 2>>
    [] op = \h51 -> <<"indirect_y", 5, 2>>
    [] OTHER -> <<"unknown", 0, 0>>

eor(c, m) ==
  LET form == eor_form(c.current_opcode)
      v == ReadOperand(form[1], Operands(c, m), m)
  IN  Res(Charge(Logic(v.cpu, BitXor(v.cpu.a, v.val)), form[2], form[3]), m, v.val)

inc_form(op) ==
  CASE op = \he6 -> <<"zero_page", 5, 2>>
    [] op = \hf6 -> <<"zero_page_x", 6, 2>>
    [] op = \hee -> <<"absolute", 6, 3>>
    [] op = \hfe -> <<"absolute_x", 7, 3>>
    [] OTHER -> <<"unknown", 0, 0>>

inc_value_saturating(v) == NewValue(v.cpu, IF v.val = 255 THEN 255 ELSE v.val + 1)

inc_value(v) == NewValue(v.cpu, IF v.val = 255 THEN 0 ELSE v.val + 1)

inc(c, m) ==
  LET form == inc_form(c.current_opcode)
      f == Operands(c, m)
  IN  Modify(form, ReadOperand(form[1], f, m), f, inc_value(ReadOperand(form[1], f, m)))

inx(c, m) == Implied([c EXCEPT !.x = IF c.x = 255 THEN 0 ELSE c.x + 1], m,
                     IF c.x = 255 THEN 0 ELSE c.x + 1)

iny(c, m) == Implied([c EXCEPT !.y = IF c.y = 255 THEN 0 ELSE c.y + 1], m,
                     IF c.y = 255 THEN 0 ELSE c.y + 1)

\* mutant: a jump charges no tick
jmp_to_free(c, m, addr) ==
  CASE c.current_opcode = \h4c -> Res([c EXCEPT !.pc = addr], m, addr)
    [] c.current_opcode = \h6c -> Res([c EXCEPT !.pc = read_u16(m, addr)], m, addr)
    [] OTHER -> Res(c, m, addr)

\* jmp after let addr = mem.mmu.read_u16(self.pc + 1)
jmp_to(c, m, addr) ==
  CASE c.current_opcode = \h4c -> Res(AddTick([c EXCEPT !.pc = addr], 3), m, addr)
    [] c.current_opcode = \h6c ->
         Res(AddTick([c EXCEPT !.pc = read_u16(m, addr)], 5), m, addr)
    [] OTHER -> Res(c, m, addr)

jmp(c, m) == jmp_to(Add16(c, c.pc, 1).cpu, m, read_u16(m, Add16(c, c.pc, 1).val))

\* jsr after the operand bytes are read: self.push_u16(mem, pc + 2) and the jump
jsr_push(f, m, s) ==
  LET r == push_u16(s.cpu, m, s.val)
  IN  Res(AddTick([r.cpu EXCEPT !.pc = make_address(f.arg1, f.arg2)], 6), r.mem, s.val)

jsr(c, m) == jsr_push(Operands(c, m), m, Add16(Operands(c, m).cpu, c.pc, 2))

lda_form(op) ==
  CASE op = \ha9 -> <<"immediate", 2, 2>>
    [] op = \ha5 -> <<"zero_page", 3, 2>>
    [] op = \hb5 -> <<"zero_page_x", 4, 2>>
    [] op = \had -> <<"absolute", 4, 3>>
    [] op = \hbd -> <<"absolute_x", 4, 3>>
    [] op = \hb9 -> <<"absolute_y", 4, 3>>
    [] op = \ha1 -> <<"indirect_x", 6, 2>>
    [] op = \hb1 -> <<"indirect_y", 5, 2>>
    [] OTHER -> <<"unknown", 0, 0>>

\* lda reads the second operand byte only in the arms of its absolute modes
lda_operands(form, c, m) ==
  IF form[1] \in {"absolute", "absolute_x", "absolute_y"}
    THEN Operands(c, m)
    ELSE [cpu |-> Arg1(c, m).cpu, arg1 |-> Arg1(c, m).val, arg2 |-> 0]

\* a load's match: the register is set and the cost charged when the opcode has an arm
Load8(form, v, c1) ==
  IF form[1] = "unknown" THEN Res(v.cpu, v.mem, v.val)
  ELSE Res(Charge(c1, form[2], form[3]), v.mem, v.val)

lda_set_flags_of_old_a(form, v) == 
  LET r == Load8(form, v, [v.cpu EXCEPT !.a = v.val])
  IN  Res(SetZS(r.cpu, v.cpu.a), r.mem, r.val)

lda_set(form, v) == 
  LET r == Load8(form, v, [v.cpu EXCEPT !.a = v.val])
  IN  Res(SetZS(r.cpu, r.cpu.a), r.mem, r.val)

lda(c, m) ==
  lda_set(lda_form(c.current_opcode),
          ReadOperand(lda_form(c.current_opcode)[1],
                      lda_operands(lda_form(c.current_opcode), c, m), m))

ldx_form(op) ==
  CASE op = \ha2 -> <<"immediate", 2, 2>>
    [] op = \ha6 -> <<"zero_page", 3, 2>>
    [] op = \hb6 -> <<"zero_page_y", 4, 2>>
    [] op = \hae -> <<"absolute", 4, 3>>
    [] op = \hbe -> <<"absolute_y", 4, 3>>
    [] OTHER -> <<"unknown", 0, 0>>

ldx_set(form, v) == 
  LET r == Load8(form, v, [v.cpu EXCEPT !.x = v.val])
  IN  Res(SetZS(r.cpu, r.cpu.x), r.mem, r.val)

ldx(c, m) ==
  ldx_set(ldx_form(c.current_opcode),
          ReadOperand(ldx_form(c.current_opcode)[1], Operands(c, m), m))

ldy_form(op) ==
  CASE op = \ha0 -> <<"immediate", 2, 2>>
    [] op = \ha4 -> <<"zero_page", 3, 2>>
    [] op = \hb4 -> <<"zero_page_x", 4, 2>>
    [] op = \hac -> <<"absolute", 4, 3>>
    [] op = \hbc -> <<"absolute_x", 4, 3>>
    [] OTHER -> <<"unknown", 0, 0>>

ldy_set(form, v) == 
  LET r == Load8(form, v, [v.cpu EXCEPT !.y = v.val])
  IN  Res(SetZS(r.cpu, r.cpu.y), r.mem, r.val)

ldy(c, m) ==
  ldy_set(ldy_form(c.current_opcode),
          ReadOperand(ldy_form(c.current_opcode)[1], Operands(c, m), m))

lsr_form(op) ==
  CASE op = \h4a -> <<"accumulator", 2, 1>>
    [] op = \h46 -> <<"zero_page", 5, 2>>
    [] op = \h56 -> <<"zero_page_x", 6, 2>>
    [] op = \h4e -> <<"absolute", 6, 3>>
    [] op = \h5e -> <<"absolute_x", 7, 3>>
    [] OTHER -> <<"unknown", 0, 0>>

lsr_value(v) ==
  NewValue([v.cpu EXCEPT !.carry = (Bit(v.cpu.a, 0) = 1)], v.val \div 2)

lsr(c, m) ==
  LET form == lsr_form(c.current_opcode)
      f == Operands(c, m)
  IN  Modify(form, ReadOperand(form[1], f, m), f, lsr_value(ReadOperand(form[1], f, m)))

\* mutant: the no-operation advances pc and charges nothing
nop_free(c, m) == Res(AddPc(c, 1), m, 0)

nop(c, m) == Res(AddTick(AddPc(c, 1), 1), m, 0)

ora_form(op) ==
  CASE op = \h09 -> <<"immediate", 2, 2>>
    [] op = \h05 -> <<"zero_page", 3, 2>>
    [] op = \h15 -> <<"zero_page_x", 4, 2>>
    [] op = \h0d -> <<"absolute", 4, 3>>
    [] op = \h1d -> <<"absolute_x", 4, 3>>
    [] op = \h19 -> <<"absolute_y", 4, 3>>
    [] op = \h01 -> <<"indirect_x", 6, 2>>
    [] op = \h11 -> <<"indirect_y", 5, 2>>
    [] OTHER -> <<"unknown", 0, 0>>

ora(c, m) ==
  LET form == ora_form(c.current_opcode)
      v == ReadOperand(form[1], Operands(c, m), m)
  IN  Res(Charge(Logic(v.cpu, BitOr(v.cpu.a, v.val)), form[2], form[3]), m, v.val)

\* the tail of pha, php, pla, plp: self.pc += 1; self.tick_count += t
StackOp(r, t) == Res(AddTick(AddPc(r.cpu, 1), t), r.mem, r.val)

\* mutant: pha writes the accumulator to the stack and leaves sp where it was
pha_keeps_sp(c, m) == StackOp([push_u8(c, m, c.a) EXCEPT !.cpu.sp = c.sp], 3)

pha(c, m) == StackOp(push_u8(c, m, c.a), 3)

php(c, m) == StackOp(push_status(c, m), 3)

pla_set(r) == Res(SetZS([r.cpu EXCEPT !.a = r.val], r.val), r.mem, r.val)

pla(c, m) == StackOp(pla_set(pull_u8(c, m)), 4)

plp(c, m) == StackOp(pull_status(c, m), 4)

rol_form(op) ==
  CASE op = \h2a -> <<"accumulator", 2, 1>>
    [] op = \h26 -> <<"zero_page", 5, 2>>
    [] op = \h36 -> <<"zero_page_x", 6, 2>>
    [] op = \h2e -> <<"absolute", 6, 3>>
    [] op = \h3e -> <<"absolute_x_unchecked", 7, 3>>
    [] OTHER -> <<"unknown", 0, 0>>

\* mutant: the carry-in is added to the shifted value before it is cut to 8 bits,
\* and bit 7 is kept in it
rol_value_unmasked(v) ==
  NewValue([v.cpu EXCEPT !.carry = (Bit(v.val, 7) = 1)],
           (v.val * 2) + (IF v.cpu.carry THEN 1 ELSE 0))

rol_value(v) ==
  NewValue([v.cpu EXCEPT !.carry = (Bit(v.val, 7) = 1)],
           ((v.val % 128) * 2) + (IF v.cpu.carry THEN 1 ELSE 0))

rol(c, m) ==
  LET form == rol_form(c.current_opcode)
      f == Operands(c, m)
  IN  Modify(form, ReadOperand(form[1], f, m), f, rol_value(ReadOperand(form[1], f, m)))

ror_form(op) ==
  CASE op = \h6a -> <<"accumulator", 2, 1>>
    [] op = \h66 -> <<"zero_page", 5, 2>>
    [] op = \h76 -> <<"zero_page_x", 6, 2>>
    [] op = \h6e -> <<"absolute", 6, 3>>
    [] op = \h7e -> <<"absolute_x", 7, 3>>
    [] OTHER -> <<"unknown", 0, 0>>

ror_value(v) ==
  NewValue([v.cpu EXCEPT !.carry = (Bit(v.val, 0) = 1)],
           (v.val \div 2) + (IF v.cpu.carry THEN 128 ELSE 0))

ror(c, m) ==
  LET form == ror_form(c.current_opcode)
      f == Operands(c, m)
  IN  Modify(form, ReadOperand(form[1], f, m), f, ror_value(ReadOperand(form[1], f, m)))

rti_pc(r) == Res(AddTick([r.cpu EXCEPT !.pc = r.val], 6), r.mem, r.val)

rti(c, m) == rti_pc(pull_u16(pull_status(c, m).cpu, pull_status(c, m).mem))

rts_pc(r, s) == Res(AddTick([s.cpu EXCEPT !.pc = s.val], 6), r.mem, r.val)

rts_verbatim(c, m) == rts_pc(pull_u16(c, m), Add16(pull_u16(c, m).cpu, pull_u16(c, m).val, 0))

rts(c, m) == rts_pc(pull_u16(c, m), Add16(pull_u16(c, m).cpu, pull_u16(c, m).val, 1))

sbc_form(op) ==
  CASE op = \he9 -> <<"immediate", 2, 2>>
    [] op = \he5 -> <<"zero_page", 3, 2>>
    [] op = \hf5 -> <<"zero_page_x", 4, 2>>
    [] op = \hed -> <<"absolute", 4, 3>>
    [] op = \hfd -> <<"absolute_x", 4, 3>>
    [] op = \hf9 -> <<"absolute_y", 4, 3>>
    [] op = \he1 -> <<"indirect_x", 6, 2>>
    [] op = \hf1 -> <<"indirect_y", 5, 2>>
    [] OTHER -> <<"unknown", 0, 0>>

\* mutant: overflow is the signed overflow of the subtraction
sbc_alu_signed_overflow(c, value) ==
  LET total == c.a - value - (IF c.carry THEN 1 ELSE 0)
  IN  [c EXCEPT !.carry = total >= 0,
                !.overflow = (AsI8(c.a) - AsI8(value) - (IF c.carry THEN 1 ELSE 0) < -128)
                             \/ (AsI8(c.a) - AsI8(value) - (IF c.carry THEN 1 ELSE 0) > 127),
                !.zero = (total % 256) = 0,
                !.sign = Bit(total % 256, 7) = 1,
                !.a = total % 256]

sbc_alu(c, value) ==
  LET total == c.a - value - (IF c.carry THEN 1 ELSE 0)
  IN  [c EXCEPT !.carry = total >= 0,
                !.overflow = total < 0,
                !.zero = (total % 256) = 0,
                !.sign = Bit(total % 256, 7) = 1,
                !.a = total % 256]

sbc(c, m) ==
  LET form == sbc_form(c.current_opcode)
      v == ReadOperand(form[1], Operands(c, m), m)
  IN  Res(Charge(sbc_alu(v.cpu, v.val), form[2], form[3]), m, v.val)

sec(c, m) == Res(AddPc(AddTick([c EXCEPT !.carry = TRUE], 2), 1), m, 0)

sed(c, m) == Res(AddPc(AddTick([c EXCEPT !.decimal = TRUE], 2), 1), m, 0)

sei(c, m) == Res(AddPc(AddTick([c EXCEPT !.interrupt = TRUE], 2), 1), m, 0)

\* mutant: the absolute store advances pc by two
sta_form_short_absolute(op) ==
  CASE op = \h85 -> <<"zero_page", 3, 2>>
    [] op = \h95 -> <<"zero_page_x", 4, 2>>
    [] op = \h8d -> <<"absolute", 4, 2>>
    [] op = \h9d -> <<"absolute_x", 5, 3>>
    [] op = \h99 -> <<"absolute_y", 5, 3>>
    [] op = \h81 -> <<"indirect_x", 6, 2>>
    [] op = \h91 -> <<"indirect_y", 6, 2>>
    [] OTHER -> <<"unknown", 0, 0>>

sta_form(op) ==
  CASE op = \h85 -> <<"zero_page", 3, 2>>
    [] op = \h95 -> <<"zero_page_x", 4, 2>>
    [] op = \h8d -> <<"absolute", 4, 3>>
    [] op = \h9d -> <<"absolute_x", 5, 3>>
    [] op = \h99 -> <<"absolute_y", 5, 3>>
    [] op = \h81 -> <<"indirect_x", 6, 2>>
    [] op = \h91 -> <<"indirect_y", 6, 2>>
    [] OTHER -> <<"unknown", 0, 0>>

sta(c, m) == StoreReg(sta_form(c.current_opcode), Operands(c, m), m, c.a)

stx_form(op) ==
  CASE op = \h86 -> <<"zero_page", 3, 2>>
    [] op = \h96 -> <<"zero_page_y", 4, 2>>
    [] op = \h8e -> <<"absolute", 4, 3>>
    [] OTHER -> <<"unknown", 0, 0>>

stx(c, m) == StoreReg(stx_form(c.current_opcode), Operands(c, m), m, c.x)

sty_form(op) ==
  CASE op = \h84 -> <<"zero_page", 3, 2>>
    [] op = \h94 -> <<"zero_page_x", 4, 2>>
    [] op = \h8c -> <<"absolute", 4, 3>>
    [] OTHER -> <<"unknown", 0, 0>>

sty(c, m) == StoreReg(sty_form(c.current_opcode), Operands(c, m), m, c.y)

\* the tail of the transfers that set zero and sign
Transfer(c, m, value) == Res(AddTick(AddPc(SetZS(c, value), 1), 2), m, value)

tax(c, m) == Transfer([c EXCEPT !.x = c.a], m, c.a)

tay(c, m) == Transfer([c EXCEPT !.y = c.a], m, c.a)

tsx(c, m) == Transfer([c EXCEPT !.x = c.sp], m, c.sp)

txa(c, m) == Transfer([c EXCEPT !.a = c.x], m, c.x)

\* mutant: txs sets zero and sign as the other transfers do
txs_sets_flags(c, m) == Transfer([c EXCEPT !.sp = c.x], m, c.x)

txs(c, m) == Res(AddTick(AddPc([c EXCEPT !.sp = c.x], 1), 2), m, 0)

tya(c, m) == Transfer([c EXCEPT !.a = c.y], m, c.y)

\* mutant: reset restarts the tick counter
reset_clears_ticks(c, m) == Res([c EXCEPT !.pc = read_u16(m, 65532), !.tick_count = 0], m, 0)

reset(c, m) == Res([c EXCEPT !.pc = read_u16(m, 65532)], m, 0)

(***************************************************************************)
(* The dispatch table.                                                     *)
(***************************************************************************)
\* the instructions a handler carries out (unrecognised opcodes are the rest of U8)
Handled ==
  {\h00, \h01, \h05, \h06, \h08, \h09, \h0a, \h0d, \h0e, \h10, \h11, \h15,
   \h16, \h18, \h19, \h1d, \h1e, \h20, \h21, \h24, \h25, \h26, \h28, \h29,
   \h2a, \h2c, \h2d, \h2e, \h30, \h31, \h32, \h33, \h34, \h35, \h36, \h38,
   \h39, \h3d, \h3e, \h40, \h41, \h45, \h46, \h48, \h49, \h4a, \h4c, \h4d,
   \h4e, \h50, \h51, \h55, \h56, \h58, \h59, \h5d, \h5e, \h60, \h61, \h65,
   \h66, \h68, \h69, \h6a, \h6c, \h6d, \h6e, \h70, \h71, \h75, \h76, \h78,
   \h79, \h7d, \h7e, \h81, \h84, \h85, \h86, \h88, \h8a, \h8c, \h8d, \h8e,
   \h90, \h91, \h94, \h95, \h96, \h98, \h99, \h9a, \h9d, \ha0, \ha1, \ha2,
   \ha4, \ha5, \ha6, \ha8, \ha9, \haa, \hac, \had, \hae, \hb0, \hb1, \hb4,
   \hb5, \hb6, \hb8, \hb9, \hba, \hbc, \hbd, \hbe, \hc0, \hc1, \hc4, \hc5,
   \hc6, \hc8, \hc9, \hca, \hcc, \hcd, \hce, \hd0, \hd1, \hd5, \hd6, \hd8,
   \hd9, \hdd, \hde, \he0, \he1, \he4, \he5, \he6, \he8, \he9, \hec, \hed,
   \hee, \hf0, \hf1, \hf5, \hf6, \hf8, \hf9, \hfd, \hfe}

\* the fallback arm of the dispatch: a message is printed and nothing else happens
bad_opcode_charges(c, m) == Res(AddTick(c, 2), m, 0)

bad_opcode(c, m) == Res(c, m, 0)

fetch_and_execute(c0, m) ==
  LET op == read_u8(m, c0.pc)
      c == [c0 EXCEPT !.current_opcode = op]
  IN  CASE op = \h00 -> brk(c, m)
        [] op = \h01 -> ora(c, m)
        [] op = \h05 -> ora(c, m)
        [] op = \h06 -> asl(c, m)
        [] op = \h08 -> php(c, m)
        [] op = \h09 -> ora(c, m)
        [] op = \h0a -> asl(c, m)
        [] op = \h0d -> ora(c, m)
        [] op = \h0e -> asl(c, m)
        [] op = \h10 -> bpl(c, m)
        [] op = \h11 -> ora(c, m)
        [] op = \h15 -> ora(c, m)
        [] op = \h16 -> asl(c, m)
        [] op = \h18 -> clc(c, m)
        [] op = \h19 -> ora(c, m)
        [] op = \h1d -> ora(c, m)
        [] op = \h1e -> asl(c, m)
        [] op = \h20 -> jsr(c, m)
        [] op = \h21 -> and(c, m)
        [] op = \h24 -> bit(c, m)
        [] op = \h25 -> and(c, m)
        [] op = \h26 -> rol(c, m)
        [] op = \h28 -> plp(c, m)
        [] op = \h29 -> and(c, m)
        [] op = \h2a -> rol(c, m)
        [] op = \h2c -> bit(c, m)
        [] op = \h2d -> and(c, m)
        [] op = \h2e -> rol(c, m)
        [] op = \h30 -> bmi(c, m)
        [] op = \h31 -> and(c, m)
        [] op = \h32 -> nop(c, m)
        [] op = \h33 -> nop(c, m)
        [] op = \h34 -> nop(c, m)
        [] op = \h35 -> and(c, m)
        [] op = \h36 -> rol(c, m)
        [] op = \h38 -> sec(c, m)
        [] op = \h39 -> and(c, m)
        [] op = \h3d -> and(c, m)
        [] op = \h3e -> rol(c, m)
        [] op = \h40 -> rti(c, m)
        [] op = \h41 -> eor(c, m)
        [] op = \h45 -> eor(c, m)
        [] op = \h46 -> lsr(c, m)
        [] op = \h48 -> pha(c, m)
        [] op = \h49 -> eor(c, m)
        [] op = \h4a -> lsr(c, m)
        [] op = \h4c -> jmp(c, m)
        [] op = \h4d -> eor(c, m)
        [] op = \h4e -> lsr(c, m)
        [] op = \h50 -> bvc(c, m)
        [] op = \h51 -> eor(c, m)
        [] op = \h55 -> eor(c, m)
        [] op = \h56 -> lsr(c, m)
        [] op = \h58 -> cli(c, m)
        [] op = \h59 -> eor(c, m)
        [] op = \h5d -> eor(c, m)
        [] op = \h5e -> lsr(c, m)
        [] op = \h60 -> rts(c, m)
        [] op = \h61 -> adc(c, m)
        [] op = \h65 -> adc(c, m)
        [] op = \h66 -> ror(c, m)
        [] op = \h68 -> pla(c, m)
        [] op = \h69 -> adc(c, m)
        [] op = \h6a -> ror(c, m)
        [] op = \h6c -> jmp(c, m)
        [] op = \h6d -> adc(c, m)
        [] op = \h6e -> ror(c, m)
        [] op = \h70 -> bvs(c, m)
        [] op = \h71 -> adc(c, m)
        [] op = \h75 -> adc(c, m)
        [] op = \h76 -> ror(c, m)
        [] op = \h78 -> sei(c, m)
        [] op = \h79 -> adc(c, m)
        [] op = \h7d -> adc(c, m)
        [] op = \h7e -> ror(c, m)
        [] op = \h81 -> sta(c, m)
        [] op = \h84 -> sty(c, m)
        [] op = \h85 -> sta(c, m)
        [] op = \h86 -> stx(c, m)
        [] op = \h88 -> dey(c, m)
        [] op = \h8a -> txa(c, m)
        [] op = \h8c -> sty(c, m)
        [] op = \h8d -> sta(c, m)
        [] op = \h8e -> stx(c, m)
        [] op = \h90 -> bcc(c, m)
        [] op = \h91 -> sta(c, m)
        [] op = \h94 -> sty(c, m)
        [] op = \h95 -> sta(c, m)
        [] op = \h96 -> stx(c, m)
        [] op = \h98 -> tya(c, m)
        [] op = \h99 -> sta(c, m)
        [] op = \h9a -> txs(c, m)
        [] op = \h9d -> sta(c, m)
        [] op = \ha0 -> ldy(c, m)
        [] op = \ha1 -> lda(c, m)
        [] op = \ha2 -> ldx(c, m)
        [] op = \ha4 -> ldy(c, m)
        [] op = \ha5 -> lda(c, m)
        [] op = \ha6 -> ldx(c, m)
        [] op = \ha8 -> tay(c, m)
        [] op = \ha9 -> lda(c, m)
        [] op = \haa -> tax(c, m)
        [] op = \hac -> ldy(c, m)
        [] op = \had -> lda(c, m)
        [] op = \hae -> ldx(c, m)
        [] op = \hb0 -> bcs(c, m)
        [] op = \hb1 -> lda(c, m)
        [] op = \hb4 -> ldy(c, m)
        [] op = \hb5 -> lda(c, m)
        [] op = \hb6 -> ldx(c, m)
        [] op = \hb8 -> clv(c, m)
        [] op = \hb9 -> lda(c, m)
        [] op = \hba -> tsx(c, m)
        [] op = \hbc -> ldy(c, m)
        [] op = \hbd -> lda(c, m)
        [] op = \hbe -> ldx(c, m)
        [] op = \hc0 -> cpy(c, m)
        [] op = \hc1 -> cmp(c, m)
        [] op = \hc4 -> cpy(c, m)
        [] op = \hc5 -> cmp(c, m)
        [] op = \hc6 -> dec(c, m)
        [] op = \hc8 -> iny(c, m)
        [] op = \hc9 -> cmp(c, m)
        [] op = \hca -> dex(c, m)
        [] op = \hcc -> cpy(c, m)
        [] op = \hcd -> cmp(c, m)
        [] op = \hce -> dec(c, m)
        [] op = \hd0 -> bne(c, m)
        [] op = \hd1 -> cmp(c, m)
        [] op = \hd5 -> cmp(c, m)
        [] op = \hd6 -> dec(c, m)
        [] op = \hd8 -> cld(c, m)
        [] op = \hd9 -> cmp(c, m)
        [] op = \hdd -> cmp(c, m)
        [] op = \hde -> dec(c, m)
        [] op = \he0 -> cpx(c, m)
        [] op = \he1 -> sbc(c, m)
        [] op = \he4 -> cpx(c, m)
        [] op = \he5 -> sbc(c, m)
        [] op = \he6 -> inc(c, m)
        [] op = \he8 -> inx(c, m)
        [] op = \he9 -> sbc(c, m)
        [] op = \hec -> cpx(c, m)
        [] op = \hed -> sbc(c, m)
        [] op = \hee -> inc(c, m)
        [] op = \hf0 -> beq(c, m)
        [] op = \hf1 -> sbc(c, m)
        [] op = \hf5 -> sbc(c, m)
        [] op = \hf6 -> inc(c, m)
        [] op = \hf8 -> sed(c, m)
        [] op = \hf9 -> sbc(c, m)
        [] op = \hfd -> sbc(c, m)
        [] op = \hfe -> inc(c, m)
        [] OTHER -> bad_opcode(c, m)

\* what the handler the dispatch routes op to selects for op in its own matches on
\* self.current_opcode ("unknown" is the handler's fallback arm); "none" for the
\* opcodes whose handler has no such match or is no handler at all
HandlerArm(op) ==
  CASE op \in {\h61, \h65, \h69, \h6d, \h71, \h75, \h79, \h7d} -> adc_form(op)
    [] op \in {\h21, \h25, \h29, \h2d, \h31, \h35, \h39, \h3d} -> and_form(op)
    [] op \in {\h06, \h0a, \h0e, \h16, \h1e} -> asl_form(op)
    [] op \in {\h24, \h2c} -> bit_form(op)
    [] op \in {\hc1, \hc5, \hc9, \hcd, \hd1, \hd5, \hd9, \hdd} -> cmp_form(op)
    [] op \in {\he0, \he4, \hec} -> cpx_form(op)
    [] op \in {\hc0, \hc4, \hcc} -> cpy_form(op)
    [] op \in {\hc6, \hce, \hd6, \hde} -> dec_form(op)
    [] op \in {\h41, \h45, \h49, \h4d, \h51, \h55, \h59, \h5d} -> eor_form(op)
    [] op \in {\he6, \hee, \hf6, \hfe} -> inc_form(op)
    [] op \in {\ha1, \ha5, \ha9, \had, \hb1, \hb5, \hb9, \hbd} -> lda_form(op)
    [] op \in {\ha2, \ha6, \hae, \hb6, \hbe} -> ldx_form(op)
    [] op \in {\ha0, \ha4, \hac, \hb4, \hbc} -> ldy_form(op)
    [] op \in {\h46, \h4a, \h4e, \h56, \h5e} -> lsr_form(op)
    [] op \in {\h01, \h05, \h09, \h0d, \h11, \h15, \h19, \h1d} -> ora_form(op)
    [] op \in {\h26, \h2a, \h2e, \h36, \h3e} -> rol_form(op)
    [] op \in {\h66, \h6a, \h6e, \h76, \h7e} -> ror_form(op)
    [] op \in {\he1, \he5, \he9, \hed, \hf1, \hf5, \hf9, \hfd} -> sbc_form(op)
    [] op \in {\h81, \h85, \h8d, \h91, \h95, \h99, \h9d} -> sta_form(op)
    [] op \in {\h86, \h8e, \h96} -> stx_form(op)
    [] op \in {\h84, \h8c, \h94} -> sty_form(op)
    [] OTHER -> <<"none", 0, 0>>

(***************************************************************************)
(* The execution loop.  A break condition is a pair: <<"RunToPc", pc>>,    *)
(* <<"RunNext", 0>>, <<"RunToScanline", 0>> or <<"RunFrame", 0>>.  The     *)
(* trace printed while is_debugging is set changes no state.               *)
(***************************************************************************)
\* the tick budget nes defines; the loop only compares tick_count with it
TICKS_PER_SCANLINE == 12

Satisfied_never_at_pc(break_cond, c, starting_tick_count) ==
  CASE break_cond[1] = "RunToPc" -> FALSE
    [] break_cond[1] = "RunNext" -> c.tick_count # starting_tick_count
    [] break_cond[1] = "RunToScanline" -> c.tick_count >= TICKS_PER_SCANLINE
    [] break_cond[1] = "RunFrame" -> FALSE

Satisfied_scanline_never(break_cond, c, starting_tick_count) ==
  CASE break_cond[1] = "RunToPc" -> c.pc = break_cond[2]
    [] break_cond[1] = "RunNext" -> c.tick_count # starting_tick_count
    [] break_cond[1] = "RunToScanline" -> FALSE
    [] break_cond[1] = "RunFrame" -> FALSE

Satisfied_frame_at_budget(break_cond, c, starting_tick_count) ==
  CASE break_cond[1] = "RunToPc" -> c.pc = break_cond[2]
    [] break_cond[1] = "RunNext" -> c.tick_count # starting_tick_count
    [] break_cond[1] = "RunToScanline" -> c.tick_count >= TICKS_PER_SCANLINE
    [] break_cond[1] = "RunFrame" -> c.tick_count >= TICKS_PER_SCANLINE

\* mutant: RunNext is satisfied by every instruction fetched
Satisfied_next_by_fetch(break_cond, c, starting_tick_count) ==
  CASE break_cond[1] = "RunToPc" -> c.pc = break_cond[2]
    [] break_cond[1] = "RunNext" -> TRUE
    [] break_cond[1] = "RunToScanline" -> c.tick_count >= TICKS_PER_SCANLINE
    [] break_cond[1] = "RunFrame" -> FALSE

\* the match on break_cond after an instruction left the processor c: return true?
Satisfied(break_cond, c, starting_tick_count) ==
  CASE break_cond[1] = "RunToPc" -> c.pc = break_cond[2]
    [] break_cond[1] = "RunNext" -> c.tick_count # starting_tick_count
    [] break_cond[1] = "RunToScanline" -> c.tick_count >= TICKS_PER_SCANLINE
    [] break_cond[1] = "RunFrame" -> FALSE

\* how a call of the loop ends: the processor and memory it leaves, the value it
\* returns, the program counter after each instruction it executed, and whether it
\* is caught in a loop that never ends
Ended(c, m, val, trace, hung) ==
  [cpu |-> c, mem |-> m, val |-> val, trace |-> trace, hung |-> hung]

RECURSIVE RunLoop(_, _, _, _, _)

\* one pass of the while body; r is what self.fetch_and_execute(mem) made of c and m.
\* An overflowing addition panics under overflow checks.  An instruction that changes
\* nothing and does not satisfy the condition is repeated for ever.
Iterate(c, m, break_cond, starting_tick_count, trace, r) ==
  IF r.cpu.ovf /\ overflow_checks THEN Ended(r.cpu, r.mem, FALSE, trace, FALSE)
  ELSE IF Satisfied(break_cond, r.cpu, starting_tick_count)
    THEN Ended(r.cpu, r.mem, TRUE, Append(trace, r.cpu.pc), FALSE)
  ELSE IF r.mem = m /\ [r.cpu EXCEPT !.ovf = FALSE] = [c EXCEPT !.current_opcode = r.cpu.current_opcode]
    THEN Ended(r.cpu, r.mem, FALSE, Append(trace, r.cpu.pc), TRUE)
  ELSE RunLoop([r.cpu EXCEPT !.ovf = FALSE], r.mem, break_cond, starting_tick_count,
               Append(trace, r.cpu.pc))

\* while self.tick_count < TICKS_PER_SCANLINE { ... }  false
RunLoop(c, m, break_cond, starting_tick_count, trace) ==
  IF c.tick_count < TICKS_PER_SCANLINE
    THEN CHOOSE end \in {Iterate(c, m, break_cond, starting_tick_count, trace, r) :
                           r \in {fetch_and_execute(c, m)}} : TRUE
    ELSE Ended(c, m, FALSE, trace, FALSE)

run_until_condition(c, m, break_cond) == RunLoop(c, m, break_cond, c.tick_count, << >>)

(***************************************************************************)
(* The operations as steps.  log records each operation carried out: its   *)
(* name, its argument (the fetched opcode for fetch_and_execute), the      *)
(* processor and memory before it, the value it returned and whether it    *)
(* completed (done) or panicked on an arithmetic overflow.  For a call of  *)
(* run_until_condition, trace lists the program counter after each         *)
(* instruction the call executed, and hung says that its loop never ends.  *)
(***************************************************************************)
CommitCall(op, arg, r, trace, hung) ==
  /\ LET panic == r.cpu.ovf /\ overflow_checks
     IN  /\ log' = Append(log, [op |-> op, arg |-> arg, before |-> cpu, bmem |-> mem,
                                ret |-> r.val, done |-> ~panic /\ ~hung,
                                trace |-> trace, hung |-> hung])
         /\ panicked' = panic
         /\ cpu' = IF panic THEN cpu ELSE [r.cpu EXCEPT !.ovf = FALSE]
         /\ mem' = IF panic THEN mem ELSE r.mem
  /\ UNCHANGED <<rest, overflow_checks>>

Commit(op, arg, r) == CommitCall(op, arg, r, << >>, FALSE)

\* an operation is called while the process lives (it has not panicked and is not
\* inside a call that never returns); MaxSteps bounds the behaviour
Live ==
  /\ ~panicked
  /\ Len(log) < MaxSteps
  /\ log # << >> => ~log[Len(log)].hung

\* the bytes the initial states are drawn from: the neighbourhoods of 0x00, 0x80, 0xFF
ByteSet ==
  {v \in U8 : v <= EdgeRadius \/ v >= 255 - EdgeRadius
              \/ (v >= 128 - EdgeRadius /\ v <= 128 + EdgeRadius)}

\* the data a caller pushes
DataBytes == {\h00, \h5a, \hff}
DataWords == {\h0000, \h12ff, \hff80, \h8001}

FetchAndExecute ==
  /\ Live
  /\ Commit("fetch_and_execute", read_u8(mem, cpu.pc), fetch_and_execute(cpu, mem))

Reset == Live /\ Commit("reset", 0, reset(cpu, mem))

PushU8 == Live /\ \E data \in DataBytes : Commit("push_u8", data, push_u8(cpu, mem, data))

PushU16 == Live /\ \E data \in DataWords : Commit("push_u16", data, push_u16(cpu, mem, data))

PushStatus == Live /\ Commit("push_status", 0, push_status(cpu, mem))

PullU8 == Live /\ Commit("pull_u8", 0, pull_u8(cpu, mem))

PullU16 == Live /\ Commit("pull_u16", 0, pull_u16(cpu, mem))

PullStatus == Live /\ Commit("pull_status", 0, pull_status(cpu, mem))

\* the break conditions a caller passes
BreakConditions ==
  {<<"RunNext", 0>>, <<"RunToScanline", 0>>, <<"RunFrame", 0>>}
    \cup {<<"RunToPc", pc>> : pc \in {\h8000, \h8001, \h8002, \h1234}}

RunUntilCondition ==
  Live /\ \E break_cond \in BreakConditions :
            \E r \in {run_until_condition(cpu, mem, break_cond)} :
              CommitCall("run_until_condition", break_cond, r, r.trace, r.hung)

\* the memory holding the bytes of prog from address at on
Load(at, prog) ==
  [ad \in {(at + i - 1) % 65536 : i \in 1 .. Len(prog)} |->
     prog[CHOOSE i \in 1 .. Len(prog) : (at + i - 1) % 65536 = ad]]

\* the processor and memory the i-th logged operation left
After(i) ==
  IF i = Len(log) THEN [cpu |-> cpu, mem |-> mem]
  ELSE [cpu |-> log[i + 1].before, mem |-> log[i + 1].bmem]

Steps == 1 .. Len(log)

\* the seven flags of a processor
Flags(c) == <<c.sign, c.overflow, c.brk, c.decimal, c.interrupt, c.zero, c.carry>>

(***************************************************************************)
(* SpecStack: the stack unit, from every stack pointer of ByteSet.         *)
(***************************************************************************)
InitStack ==
  /\ \E sp \in ByteSet : cpu = [new EXCEPT !.sp = sp]
  /\ mem = << >>
  /\ rest \in ByteSet
  /\ overflow_checks = TRUE
  /\ panicked = FALSE
  /\ log = << >>

NextStack == PushU8 \/ PushU16 \/ PullU8 \/ PullU16

SpecStack == InitStack /\ [][NextStack]_vars

\* C1: push_u16(v) immediately followed by pull_u16 returns v and leaves the stack
\* pointer as it was before the push, also when the pointer wraps during the push.
C1_PushPullWord ==
  \A i \in Steps :
    (i < Len(log) /\ log[i].op = "push_u16" /\ log[i + 1].op = "pull_u16")
      => /\ log[i + 1].ret = log[i].arg
         /\ After(i + 1).cpu.sp = log[i].before.sp

C1_Witness ==
  /\ Len(log) = 2
  /\ log[1].op = "push_u16" /\ log[2].op = "pull_u16"
  /\ log[1].before.sp = 0
  /\ log[1].arg = 65408
  /\ log[2].ret = 65408
  /\ cpu.sp = 0

\* the addresses at which two memories differ
Diff(m1, m2) ==
  {ad \in (DOMAIN m1) \cup (DOMAIN m2) : read_u8(m1, ad) # read_u8(m2, ad)}

StackOps == {"push_u8", "push_u16", "pull_u8", "pull_u16"}

\* C2: push_u8 writes its byte at 0x0100 + sp (sp before the call) and then sets sp
\* to (sp - 1) mod 256; pull_u8 first sets sp to (sp + 1) mod 256 and then reads
\* 0x0100 + sp; every stack operation changes memory only within 0x0100..0x01FF.
C2_StackPage ==
  \A i \in Steps :
    LET e == log[i]
        post == After(i)
    IN  /\ e.op = "push_u8" =>
             /\ SameMem(post.mem, write_u8(e.bmem, 256 + e.before.sp, e.arg))
             /\ post.cpu.sp = (e.before.sp - 1) % 256
             /\ (e.before.sp = 0 => post.cpu.sp = 255)
        /\ e.op = "pull_u8" =>
             /\ post.cpu.sp = (e.before.sp + 1) % 256
             /\ (e.before.sp = 255 => post.cpu.sp = 0)
             /\ e.ret = read_u8(e.bmem, 256 + post.cpu.sp)
             /\ SameMem(post.mem, e.bmem)
        /\ e.op \in StackOps =>
             /\ Diff(post.mem, e.bmem) \subseteq 256 .. 511
             /\ post.cpu.sp \in U8

C2_Witness ==
  /\ Len(log) = 2
  /\ log[1].op = "push_u8" /\ log[1].before.sp = 0 /\ log[1].arg = 90
  /\ log[2].op = "pull_u8" /\ log[2].before.sp = 255 /\ log[2].ret = 90
  /\ cpu.sp = 0
  /\ read_u8(mem, 256) = 90

(***************************************************************************)
(* SpecStatus: the status byte, from each of the 128 flag combinations,    *)
(* with PHP and PLP at the program counter.                                *)
(***************************************************************************)
\* the bytes the stack page holds: ByteSet and the unused bit alone, set and clear
StatusBytes == ByteSet \cup {\h20, \hdf}

InitStatus ==
  /\ \E sp \in ByteSet, fn \in BOOLEAN, fv \in BOOLEAN, fb \in BOOLEAN,
        fd \in BOOLEAN, fi \in BOOLEAN, fz \in BOOLEAN, fc \in BOOLEAN :
       cpu = [new EXCEPT !.sp = sp, !.pc = \h8000, !.sign = fn, !.overflow = fv,
                         !.brk = fb, !.decimal = fd, !.interrupt = fi,
                         !.zero = fz, !.carry = fc]
  /\ mem = Load(\h8000, <<\h08, \h28>>)
  /\ rest \in StatusBytes
  /\ overflow_checks = TRUE
  /\ panicked = FALSE
  /\ log = << >>

NextStatus == PushStatus \/ PullStatus \/ FetchAndExecute

SpecStatus == InitStatus /\ [][NextStatus]_vars

\* the logged operation is a completed fetch_and_execute of opcode op
Ran(e, op) == e.op = "fetch_and_execute" /\ e.arg = op /\ e.done

IsPushStatus(e) == e.op = "push_status" \/ Ran(e, \h08)

IsPullStatus(e) == e.op = "pull_status" \/ Ran(e, \h28)

\* the flags a status byte encodes, each from its own bit
FlagsOfByte(b) ==
  <<Bit(b, 7) = 1, Bit(b, 6) = 1, Bit(b, 4) = 1, Bit(b, 3) = 1, Bit(b, 2) = 1,
    Bit(b, 1) = 1, Bit(b, 0) = 1>>

\* C3: the byte push_status writes has bit 0x80 set iff sign, 0x40 iff overflow,
\* 0x10 iff break, 0x08 iff decimal, 0x04 iff interrupt-disable, 0x02 iff zero,
\* 0x01 iff carry, and bit 0x20 has one fixed value (clear) whatever the flags.
C3_StatusByte ==
  \A i \in Steps :
    LET e == log[i]
        b == read_u8(After(i).mem, 256 + e.before.sp)
    IN  IsPushStatus(e) =>
          /\ FlagsOfByte(b) = Flags(e.before)
          /\ Bit(b, 5) = 0

C3_Witness ==
  /\ Len(log) >= 1
  /\ log[1].op = "push_status"
  /\ Flags(log[1].before) = <<TRUE, TRUE, TRUE, TRUE, TRUE, TRUE, TRUE>>
  /\ read_u8(After(1).mem, 256 + log[1].before.sp) = \hdf

\* C4: push_status immediately followed by pull_status, and PHP followed by PLP,
\* restore the seven flags and the stack pointer; pull_status of any byte sets each
\* flag from its own bit of the byte, whatever bit 0x20 is.
C4_StatusRoundTrip ==
  \A i \in Steps :
    LET e == log[i]
        post == After(i)
    IN  /\ IsPullStatus(e) =>
             Flags(post.cpu) = FlagsOfByte(read_u8(e.bmem, 256 + ((e.before.sp + 1) % 256)))
        /\ (i < Len(log) /\ \/ (e.op = "push_status" /\ log[i + 1].op = "pull_status")
                            \/ (Ran(e, \h08) /\ Ran(log[i + 1], \h28))) =>
             /\ Flags(After(i + 1).cpu) = Flags(e.before)
             /\ After(i + 1).cpu.sp = e.before.sp

C4_Witness ==
  /\ Len(log) = 2
  /\ Ran(log[1], \h08) /\ Ran(log[2], \h28)
  /\ log[1].before.sp = 0
  /\ Flags(log[1].before) = <<TRUE, FALSE, TRUE, FALSE, TRUE, FALSE, TRUE>>
  /\ Flags(cpu) = Flags(log[1].before)
  /\ cpu.sp = 0

(***************************************************************************)
(* SpecArith: one ADC or SBC opcode at the program counter, in each of the *)
(* eight addressing modes, from accumulators, operands and carries around  *)
(* the edges of a byte.                                                    *)
(***************************************************************************)
AdcOpcodes == {\h69, \h65, \h75, \h6d, \h7d, \h79, \h61, \h71}

SbcOpcodes == {\he9, \he5, \hf5, \hed, \hfd, \hf9, \he1, \hf1}

InitArith ==
  /\ \E op \in AdcOpcodes \cup SbcOpcodes, a \in ByteSet, fc \in BOOLEAN,
        arg1 \in ByteSet, index \in {0, 1} :
       /\ cpu = [new EXCEPT !.pc = \h8000, !.a = a, !.carry = fc,
                            !.x = index, !.y = index]
       /\ mem = Load(\h8000, <<op, arg1, \h12>>)
  /\ rest \in ByteSet
  /\ overflow_checks = TRUE
  /\ panicked = FALSE
  /\ log = << >>

NextArith == FetchAndExecute

SpecArith == InitArith /\ [][NextArith]_vars

\* the logged operation is a completed fetch_and_execute of an opcode of ops
RanOneOf(e, ops) == e.op = "fetch_and_execute" /\ e.arg \in ops /\ e.done

\* the zero and sign flags are those of the byte v
ZeroSignOf(c, v) == (c.zero <=> v = 0) /\ (c.sign <=> v >= 128)

\* C5: ADC, in each of its eight addressing modes, leaves accumulator =
\* (a + m + c) mod 256 and carry = (a + m + c > 255), with zero and sign taken from
\* the 8-bit result, never from the 9-bit sum (m is the operand the mode resolved).
C5_AdcResult ==
  \A i \in Steps :
    LET e == log[i]
        post == After(i).cpu
        sum == e.before.a + e.ret + (IF e.before.carry THEN 1 ELSE 0)
    IN  RanOneOf(e, AdcOpcodes) =>
          /\ post.a = sum % 256
          /\ post.carry <=> sum > 255
          /\ ZeroSignOf(post, sum % 256)

C5_Witness ==
  /\ Len(log) >= 1
  /\ Ran(log[1], \h7d)
  /\ log[1].before.a = \hff /\ log[1].ret = 1 /\ ~log[1].before.carry
  /\ After(1).cpu.a = 0 /\ After(1).cpu.zero /\ After(1).cpu.carry /\ ~After(1).cpu.sign

\* C6: SBC computes t = a - m - (1 - c) for incoming carry c; afterwards accumulator =
\* t mod 256, carry = (t >= 0), zero = (t mod 256 = 0), sign = bit 7 of t mod 256: with
\* the carry set it subtracts exactly m, with the carry clear m + 1.
C6_SbcBorrow ==
  \A i \in Steps :
    LET e == log[i]
        post == After(i).cpu
        t == e.before.a - e.ret - (1 - (IF e.before.carry THEN 1 ELSE 0))
    IN  RanOneOf(e, SbcOpcodes) =>
          /\ post.a = t % 256
          /\ post.carry <=> t >= 0
          /\ ZeroSignOf(post, t % 256)

\* C25: after every ADC the overflow flag equals the carry flag, and after every SBC
\* the overflow flag is the negation of the carry flag.
C25_OverflowFollowsCarry ==
  \A i \in Steps :
    LET e == log[i]
        post == After(i).cpu
    IN  /\ RanOneOf(e, AdcOpcodes) => (post.overflow <=> post.carry)
        /\ RanOneOf(e, SbcOpcodes) => (post.overflow <=> ~post.carry)

C25_Witness ==
  /\ Len(log) >= 1
  /\ RanOneOf(log[1], SbcOpcodes)
  /\ ~log[1].before.overflow /\ ~log[1].before.carry
  /\ After(1).cpu.overflow /\ ~After(1).cpu.carry

(***************************************************************************)
(* SpecBranch: one conditional branch at the program counter, from program *)
(* counters next to page boundaries and to both ends of the address space, *)
(* under both build profiles.                                              *)
(***************************************************************************)
BPL == 16
BMI == 48
BVC == 80
BVS == 112
BCC == 144
BCS == 176
BNE == 208
BEQ == 240

BranchOpcodes == {BPL, BMI, BVC, BVS, BCC, BCS, BNE, BEQ}

\* where the branch sits: mid page, below a page boundary, at 0x0000, 0x7FFD, 0xFFFE
BranchPcs == {\h0000, \h10fb, \h10fc, \h10fe, \h7ffd, \h8000, \hfffe}

InitBranch ==
  /\ \E op \in BranchOpcodes, pc \in BranchPcs, offset \in ByteSet,
        fn \in BOOLEAN, fv \in BOOLEAN, fz \in BOOLEAN, fc \in BOOLEAN :
       /\ cpu = [new EXCEPT !.pc = pc, !.sign = fn, !.overflow = fv,
                            !.zero = fz, !.carry = fc]
       /\ mem = Load(pc, <<op, offset>>)
  /\ rest = \hea
  /\ overflow_checks \in BOOLEAN
  /\ panicked = FALSE
  /\ log = << >>

NextBranch == FetchAndExecute

SpecBranch == InitBranch /\ [][NextBranch]_vars

\* the flag condition of each branch opcode, on the processor c
Condition(op, c) ==
  CASE op = BPL -> ~c.sign
    [] op = BMI -> c.sign
    [] op = BVC -> ~c.overflow
    [] op = BVS -> c.overflow
    [] op = BCC -> ~c.carry
    [] op = BCS -> c.carry
    [] op = BNE -> ~c.zero
    [] op = BEQ -> c.zero

\* the operand byte of the instruction at e.before.pc, as a signed offset in -128..127
Offset(e) ==
  LET b == read_u8(e.bmem, (e.before.pc + 1) % 65536)
  IN  IF b >= 128 THEN b - 256 ELSE b

\* the address after the branch instruction, and the target of the branch
Following(e) == (e.before.pc + 2) % 65536

Target(e) == (e.before.pc + 2 + Offset(e)) % 65536

\* the ticks the i-th logged operation added
Ticks(i) == After(i).cpu.tick_count - log[i].before.tick_count

\* C7: a branch not taken adds 2 to tick_count; a taken branch adds 3 when its target
\* pc + 2 + offset lies in the page of pc + 2, and 4 when it lies in another page.
C7_BranchTicks ==
  \A i \in Steps :
    LET e == log[i]
    IN  RanOneOf(e, BranchOpcodes) =>
          Ticks(i) = IF ~Condition(e.arg, e.before) THEN 2
                     ELSE IF Page(Target(e)) = Page(Following(e)) THEN 3 ELSE 4

\* C8: a branch is taken exactly when its flag condition holds; taken, the new pc is
\* (pc + 2 + offset) mod 65536 for the signed offset, and not taken it is pc + 2;
\* no register, flag, stack pointer or memory byte changes.
C8_BranchTarget ==
  \A i \in Steps :
    LET e == log[i]
        post == After(i)
    IN  RanOneOf(e, BranchOpcodes) =>
          /\ post.cpu.pc = IF Condition(e.arg, e.before) THEN Target(e) ELSE Following(e)
          /\ Ticks(i) > 2 <=> Condition(e.arg, e.before)
          /\ <<post.cpu.a, post.cpu.x, post.cpu.y, post.cpu.sp>>
               = <<e.before.a, e.before.x, e.before.y, e.before.sp>>
          /\ Flags(post.cpu) = Flags(e.before)
          /\ SameMem(post.mem, e.bmem)

C8_Witness ==
  /\ Len(log) >= 1
  /\ Ran(log[1], BMI)
  /\ log[1].before.pc = 0 /\ log[1].before.sign /\ Offset(log[1]) = -128
  /\ After(1).cpu.pc = \hff82

(***************************************************************************)
(* SpecIndexed: one read instruction in absolute,X, absolute,Y or          *)
(* (indirect),Y mode at the program counter, with the base address low in  *)
(* memory or in the last page, and indexes around the edges of a byte; the *)
(* pointer of the (indirect),Y instructions is held at 0x40.               *)
(***************************************************************************)
\* ADC, AND, CMP, EOR, LDA, LDY, ORA, SBC in absolute,X
AbsoluteXReads == {\h7d, \h3d, \hdd, \h5d, \hbd, \hbc, \h1d, \hfd}

\* ADC, AND, CMP, EOR, LDA, LDX, ORA, SBC in absolute,Y
AbsoluteYReads == {\h79, \h39, \hd9, \h59, \hb9, \hbe, \h19, \hf9}

\* ADC, AND, CMP, EOR, LDA, ORA, SBC in (indirect),Y
IndirectYReads == {\h71, \h31, \hd1, \h51, \hb1, \h11, \hf1}

\* the high bytes of the base address
BaseHighs == {\h12, \hff}

InitIndexed ==
  /\ \E op \in AbsoluteXReads \cup AbsoluteYReads \cup IndirectYReads,
        lo \in ByteSet, hi \in BaseHighs, ix \in ByteSet, iy \in ByteSet :
       /\ cpu = [new EXCEPT !.pc = \h8000, !.x = ix, !.y = iy]
       /\ mem = Load(\h8000, <<op, IF op \in IndirectYReads THEN \h40 ELSE lo, hi>>)
                  @@ Load(\h40, <<lo, hi>>)
  /\ rest = \hea
  /\ overflow_checks \in BOOLEAN
  /\ panicked = FALSE
  /\ log = << >>

NextIndexed == FetchAndExecute

SpecIndexed == InitIndexed /\ [][NextIndexed]_vars

\* the base address of the logged instruction e: its two operand bytes, or the
\* pointer its zero-page operand names
BaseOf(e) ==
  LET o1 == read_u8(e.bmem, (e.before.pc + 1) % 65536)
      o2 == read_u8(e.bmem, (e.before.pc + 2) % 65536)
  IN  IF e.arg \in IndirectYReads THEN read_u16(e.bmem, o1) ELSE o1 + 256 * o2

IndexOf(e) == IF e.arg \in AbsoluteXReads THEN e.before.x ELSE e.before.y

\* base and base + index have different high bytes
Crosses(e) == Page(BaseOf(e)) # Page((BaseOf(e) + IndexOf(e)) % 65536)

\* C9: a read instruction in absolute,X or absolute,Y mode adds 4 to tick_count when
\* base and base + index have the same high byte and 5 when they differ; in
\* (indirect),Y mode, the base being the pointer read from the zero page, 5 and 6.
C9_IndexedReadTicks ==
  \A i \in Steps :
    LET e == log[i]
    IN  RanOneOf(e, AbsoluteXReads \cup AbsoluteYReads \cup IndirectYReads) =>
          Ticks(i) = (IF e.arg \in IndirectYReads THEN 5 ELSE 4)
                       + (IF Crosses(e) THEN 1 ELSE 0)

C9_Witness ==
  /\ Len(log) >= 1
  /\ Ran(log[1], \hb1)
  /\ BaseOf(log[1]) = \h12ff /\ log[1].before.y = 1
  /\ Ticks(1) = 6

(***************************************************************************)
(* SpecIncDec: one increment or decrement at the program counter, of a     *)
(* memory byte in each of the four addressing modes or of X or Y, from     *)
(* values around the edges of a byte.                                      *)
(***************************************************************************)
IncOpcodes == {\he6, \hf6, \hee, \hfe}

DecOpcodes == {\hc6, \hd6, \hce, \hde}

INX == 232
INY == 200
DEX == 202
DEY == 136

\* the zero-page operands: mid page and the last byte, where zero_page_x wraps
ZeroPageOperands == {\h10, \hff}

\* the carry, overflow, decimal, interrupt-disable and break flags before the step
FlagPatterns ==
  {<<FALSE, FALSE, FALSE, FALSE, FALSE>>, <<TRUE, TRUE, TRUE, TRUE, TRUE>>,
   <<TRUE, FALSE, TRUE, FALSE, TRUE>>, <<FALSE, TRUE, FALSE, TRUE, FALSE>>}

InitIncDec ==
  /\ \E op \in IncOpcodes \cup DecOpcodes \cup {INX, INY, DEX, DEY},
        arg1 \in ZeroPageOperands, r \in ByteSet, fl \in FlagPatterns :
       /\ cpu = [new EXCEPT !.pc = \h8000, !.x = r, !.y = r, !.carry = fl[1],
                            !.overflow = fl[2], !.decimal = fl[3],
                            !.interrupt = fl[4], !.brk = fl[5]]
       /\ mem = Load(\h8000, <<op, arg1, \h12>>)
  /\ rest \in ByteSet
  /\ overflow_checks = TRUE
  /\ panicked = FALSE
  /\ log = << >>

NextIncDec == FetchAndExecute

SpecIncDec == InitIncDec /\ [][NextIncDec]_vars

\* the address an INC or DEC opcode names, from its operand bytes and X
EffectiveAddress(e) ==
  LET o1 == read_u8(e.bmem, (e.before.pc + 1) % 65536)
      o2 == read_u8(e.bmem, (e.before.pc + 2) % 65536)
  IN  CASE e.arg \in {\he6, \hc6} -> o1
        [] e.arg \in {\hf6, \hd6} -> (o1 + e.before.x) % 256
        [] e.arg \in {\hee, \hce} -> o1 + 256 * o2
        [] e.arg \in {\hfe, \hde} -> (o1 + 256 * o2 + e.before.x) % 65536

\* the value the logged instruction e works on, in processor c and memory m
Subject(e, c, m) ==
  CASE e.arg \in {INX, DEX} -> c.x
    [] e.arg \in {INY, DEY} -> c.y
    [] OTHER -> read_u8(m, EffectiveAddress(e))

\* C10: INC, INX and INY map v to (v + 1) mod 256 and DEC, DEX and DEY map v to
\* (v - 1) mod 256; zero is set iff the new value is 0 and sign iff its bit 7 is set;
\* carry, overflow, decimal, interrupt-disable and break are as before.
C10_IncDecWrap ==
  \A i \in Steps :
    LET e == log[i]
        post == After(i)
        v == Subject(e, e.before, e.bmem)
        nv == Subject(e, post.cpu, post.mem)
    IN  RanOneOf(e, IncOpcodes \cup DecOpcodes \cup {INX, INY, DEX, DEY}) =>
          /\ nv = IF e.arg \in IncOpcodes \cup {INX, INY} THEN (v + 1) % 256
                  ELSE (v - 1) % 256
          /\ ZeroSignOf(post.cpu, nv)
          /\ <<post.cpu.carry, post.cpu.overflow, post.cpu.decimal, post.cpu.interrupt,
               post.cpu.brk>>
               = <<e.before.carry, e.before.overflow, e.before.decimal,
                   e.before.interrupt, e.before.brk>>

C10_Witness ==
  /\ Len(log) >= 1
  /\ Ran(log[1], \hf6)
  /\ log[1].before.x = 1 /\ EffectiveAddress(log[1]) = 0
  /\ read_u8(log[1].bmem, 0) = \hff /\ read_u8(After(1).mem, 0) = 0
  /\ After(1).cpu.zero /\ ~After(1).cpu.sign /\ After(1).cpu.carry

(***************************************************************************)
(* SpecLoad: one LDA, LDX or LDY opcode at the program counter, in each of *)
(* its addressing modes, with INX as the byte after a two-byte load.       *)
(***************************************************************************)
LdaOpcodes == {\ha9, \ha5, \hb5, \had, \hbd, \hb9, \ha1, \hb1}

LdxOpcodes == {\ha2, \ha6, \hb6, \hae, \hbe}

LdyOpcodes == {\ha0, \ha4, \hb4, \hac, \hbc}

LoadOpcodes == LdaOpcodes \cup LdxOpcodes \cup LdyOpcodes

ImmediateLoads == {\ha9, \ha2, \ha0}

\* the index registers before the load
IndexValues == {\h00, \h01, \hff}

InitLoad ==
  /\ \E op \in LoadOpcodes, arg1 \in ByteSet, index \in IndexValues, fl \in FlagPatterns :
       /\ cpu = [new EXCEPT !.pc = \h8000, !.a = \h5a, !.x = index, !.y = index,
                            !.carry = fl[1], !.overflow = fl[2], !.decimal = fl[3],
                            !.interrupt = fl[4], !.brk = fl[5]]
       /\ mem = Load(\h8000, <<op, arg1, INX>>)
  /\ rest \in ByteSet
  /\ overflow_checks = TRUE
  /\ panicked = FALSE
  /\ log = << >>

NextLoad == FetchAndExecute

SpecLoad == InitLoad /\ [][NextLoad]_vars

\* the value a load opcode addresses: its operand byte, or the byte at the address
\* its mode forms from the operand bytes and the index registers
Addressed(e) ==
  LET o1 == read_u8(e.bmem, (e.before.pc + 1) % 65536)
      o2 == read_u8(e.bmem, (e.before.pc + 2) % 65536)
      x == e.before.x
      y == e.before.y
  IN  CASE e.arg \in ImmediateLoads -> o1
        [] e.arg \in {\ha5, \ha6, \ha4} -> read_u8(e.bmem, o1)
        [] e.arg \in {\hb5, \hb4} -> read_u8(e.bmem, (o1 + x) % 256)
        [] e.arg = \hb6 -> read_u8(e.bmem, (o1 + y) % 256)
        [] e.arg \in {\had, \hae, \hac} -> read_u8(e.bmem, o1 + 256 * o2)
        [] e.arg \in {\hbd, \hbc} -> read_u8(e.bmem, (o1 + 256 * o2 + x) % 65536)
        [] e.arg \in {\hb9, \hbe} -> read_u8(e.bmem, (o1 + 256 * o2 + y) % 65536)
        [] e.arg = \ha1 -> read_u8(e.bmem, read_u16(e.bmem, (o1 + x) % 256))
        [] e.arg = \hb1 -> read_u8(e.bmem, (read_u16(e.bmem, o1) + y) % 65536)

\* the five flags a load, an increment or a decrement leaves alone
OtherFlags(c) == <<c.carry, c.overflow, c.decimal, c.interrupt, c.brk>>

\* C11: a load sets its register to the addressed value, zero iff the value is 0 and
\* sign iff its bit 7 is set, and leaves the other two registers, the stack pointer and
\* the other five flags alone; an immediate load adds 2 to tick_count and 2 to pc, INX
\* adds 2 and 1, so LDA #v followed by INX adds 4 to tick_count and 3 to pc.
C11_Load ==
  \A i \in Steps :
    LET e == log[i]
        b == e.before
        post == After(i).cpu
        v == Addressed(e)
    IN  /\ RanOneOf(e, LoadOpcodes) =>
             /\ <<post.a, post.x, post.y>> =
                  <<IF e.arg \in LdaOpcodes THEN v ELSE b.a,
                    IF e.arg \in LdxOpcodes THEN v ELSE b.x,
                    IF e.arg \in LdyOpcodes THEN v ELSE b.y>>
             /\ ZeroSignOf(post, v)
             /\ post.sp = b.sp
             /\ OtherFlags(post) = OtherFlags(b)
        /\ RanOneOf(e, ImmediateLoads) => Ticks(i) = 2 /\ post.pc = b.pc + 2
        /\ Ran(e, INX) => Ticks(i) = 2 /\ post.pc = b.pc + 1
        /\ (i < Len(log) /\ Ran(e, \ha9) /\ Ran(log[i + 1], INX)) =>
             /\ After(i + 1).cpu.tick_count = b.tick_count + 4
             /\ After(i + 1).cpu.pc = b.pc + 3

C11_Witness ==
  /\ Len(log) = 2
  /\ Ran(log[1], \ha9) /\ Addressed(log[1]) = \hff /\ log[1].before.x = 0
  /\ After(1).cpu.a = \hff /\ After(1).cpu.sign /\ ~After(1).cpu.zero
  /\ Ran(log[2], INX)
  /\ cpu.a = \hff /\ cpu.x = 1 /\ cpu.tick_count = 4 /\ cpu.pc = \h8003

(***************************************************************************)
(* SpecCall: JSR or BRK at the program counter, under both build profiles. *)
(* Every unlisted address holds RTS, the interrupt vector holds 0x9000 and *)
(* RTI sits there; the program counter and the stack pointer start at the  *)
(* edges of their ranges.                                                  *)
(***************************************************************************)
BRK == 0
JSR == 32
RTI == 64
RTS == 96

\* where the JSR or BRK sits
CallPcs == {\h0000, \h00fd, \h8000, \h80fe, \hfffc, \hfffd, \hfffe, \hffff}

\* the operand bytes of the JSR: the targets 0x1234 and 0xFFFF
CallTargets == {<<\h34, \h12>>, <<\hff, \hff>>}

InitCall ==
  /\ \E op \in {JSR, BRK}, pc \in CallPcs, sp \in ByteSet, t \in CallTargets,
        fi \in BOOLEAN, fb \in BOOLEAN, fo \in BOOLEAN :
       /\ cpu = [new EXCEPT !.pc = pc, !.sp = sp, !.interrupt = fi, !.brk = fb,
                            !.sign = fo, !.carry = fo, !.zero = ~fo,
                            !.overflow = ~fo, !.decimal = fo]
       /\ mem = Load(pc, IF op = JSR THEN <<JSR, t[1], t[2]>> ELSE <<BRK>>)
                  @@ Load(\hfffe, <<\h00, \h90>>) @@ Load(\h9000, <<RTI>>)
  /\ rest = RTS
  /\ overflow_checks \in BOOLEAN
  /\ panicked = FALSE
  /\ log = << >>

NextCall == FetchAndExecute

SpecCall == InitCall /\ [][NextCall]_vars

\* the byte k places above the stack pointer sp, in memory m
OnStack(m, sp, k) == read_u8(m, 256 + ((sp + k) % 256))

\* the word whose low byte is k places above the stack pointer and high byte k + 1
WordOnStack(m, sp, k) == OnStack(m, sp, k) + 256 * OnStack(m, sp, k + 1)

\* C12: JSR t at p pushes p + 2 high byte first, sets pc = t and charges 6 cycles;
\* JSR followed at once by RTS leaves pc = p + 3 and the stack pointer as before the
\* JSR, also when the stack pointer wraps during the push.
C12_JsrRts ==
  \A i \in Steps :
    LET e == log[i]
        b == e.before
        post == After(i)
    IN  /\ Ran(e, JSR) =>
             /\ post.cpu.pc = read_u16(e.bmem, (b.pc + 1) % 65536)
             /\ Ticks(i) = 6
             /\ post.cpu.sp = (b.sp - 2) % 256
             /\ WordOnStack(post.mem, post.cpu.sp, 1) = (b.pc + 2) % 65536
        /\ (i < Len(log) /\ Ran(e, JSR) /\ Ran(log[i + 1], RTS)) =>
             /\ After(i + 1).cpu.pc = (b.pc + 3) % 65536
             /\ After(i + 1).cpu.sp = b.sp

C12_Witness ==
  /\ Len(log) = 2
  /\ Ran(log[1], JSR) /\ log[1].before.pc = \h8000 /\ log[1].before.sp = 0
  /\ After(1).cpu.pc = \h1234 /\ After(1).cpu.sp = 254
  /\ Ran(log[2], RTS)
  /\ cpu.pc = \h8003 /\ cpu.sp = 0

\* C13: after BRK, pc is the word at 0xFFFE/0xFFFF, break and interrupt-disable are
\* set, the stack pointer is 3 lower (mod 256), tick_count 7 higher, and the stack
\* holds, from the top, the status byte (break bit set, interrupt-disable bit as the
\* flag was before the BRK), then the low and the high byte of the return address
\* pc + 2.
C13_BrkStack ==
  \A i \in Steps :
    LET e == log[i]
        b == e.before
        post == After(i)
    IN  Ran(e, BRK) =>
          /\ post.cpu.pc = read_u16(post.mem, \hfffe)
          /\ post.cpu.brk /\ post.cpu.interrupt
          /\ post.cpu.sp = (b.sp - 3) % 256
          /\ Ticks(i) = 7
          /\ FlagsOfByte(OnStack(post.mem, post.cpu.sp, 1)) = Flags([b EXCEPT !.brk = TRUE])
          /\ WordOnStack(post.mem, post.cpu.sp, 2) = (b.pc + 2) % 65536

\* C14: BRK at p pushes the full 16-bit return address (p + 2) mod 65536; RTI pulls
\* the status byte into the flags, then sets pc to the pulled word with no + 1, raising
\* the stack pointer by 3 and tick_count by 6; RTI with the stack as BRK left it
\* resumes at p + 2.
C14_BrkRti ==
  \A i \in Steps :
    LET e == log[i]
        b == e.before
        post == After(i)
    IN  /\ Ran(e, BRK) => WordOnStack(post.mem, post.cpu.sp, 2) = (b.pc + 2) % 65536
        /\ Ran(e, RTI) =>
             /\ Flags(post.cpu) = FlagsOfByte(OnStack(e.bmem, b.sp, 1))
             /\ post.cpu.pc = WordOnStack(e.bmem, b.sp, 2)
             /\ post.cpu.sp = (b.sp + 3) % 256
             /\ Ticks(i) = 6
        /\ (i < Len(log) /\ Ran(e, BRK) /\ Ran(log[i + 1], RTI)) =>
             After(i + 1).cpu.pc = (b.pc + 2) % 65536

(***************************************************************************)
(* SpecRun: calls of run_until_condition and of fetch_and_execute on a     *)
(* processor created at 0x8000, where one of a few programs sits or one    *)
(* byte that is no opcode; every unlisted address holds such a byte.       *)
(***************************************************************************)
\* the bytes the dispatch table has no arm for
BadOpcodes == U8 \ Handled

\* INX INX JMP $8000; LDA #1, NOP, no opcode; JMP $8000; INX and then BRK for ever
Programs ==
  {<<INX, INX, \h4c, \h00, \h80>>, <<\ha9, \h01, \h32, \hea>>, <<\h4c, \h00, \h80>>,
   <<INX, BRK>>}
    \cup {<<op>> : op \in BadOpcodes}

InitRun ==
  /\ \E prog \in Programs, fo \in BOOLEAN :
       /\ cpu = [new EXCEPT !.pc = \h8000, !.a = \h5a, !.x = IF fo THEN \hff ELSE 0,
                            !.sign = fo, !.carry = fo, !.zero = ~fo,
                            !.overflow = ~fo, !.decimal = fo, !.interrupt = ~fo]
       /\ mem = Load(\h8000, prog) @@ Load(\hfffe, <<\h01, \h80>>)
  /\ rest = \hea
  /\ overflow_checks = TRUE
  /\ panicked = FALSE
  /\ log = << >>

NextRun == RunUntilCondition \/ FetchAndExecute

SpecRun == InitRun /\ [][NextRun]_vars

\* C15: when the byte at pc is no opcode of the dispatch table, fetch_and_execute
\* leaves pc, tick_count, a, x, y, sp, the seven flags and memory unchanged, and sets
\* current_opcode to the fetched byte.
C15_BadOpcode ==
  \A i \in Steps :
    LET e == log[i]
        post == After(i)
    IN  RanOneOf(e, BadOpcodes) =>
          /\ post.cpu = [e.before EXCEPT !.current_opcode = e.arg]
          /\ SameMem(post.mem, e.bmem)

C15_Witness ==
  /\ Len(log) >= 1
  /\ Ran(log[1], \h02)
  /\ log[1].before.current_opcode = 0 /\ After(1).cpu.current_opcode = \h02
  /\ After(1).cpu.pc = \h8000 /\ After(1).cpu.tick_count = 0

\* the logged operation is a call of run_until_condition with a break condition of
\* this kind
Called(e, kind) == e.op = "run_until_condition" /\ e.arg[1] = kind

\* ... and the call returned
Returned(e, kind) == Called(e, kind) /\ e.done

\* C16: with RunNext, run_until_condition executes exactly one instruction and
\* returns true, from every state earlier calls lead to in which pc points at a
\* recognised opcode.
C16_RunNext ==
  \A i \in Steps :
    LET e == log[i]
    IN  (Called(e, "RunNext") /\ read_u8(e.bmem, e.before.pc) \in Handled) =>
          e.done /\ e.ret = TRUE /\ Len(e.trace) = 1

\* C17: with RunToPc(t), run_until_condition returns true right after the first
\* instruction it executed that leaves pc = t, and then pc = t; pc = t at entry
\* satisfies nothing; it returns false only when the tick budget check ends the loop.
C17_RunToPc ==
  \A i \in Steps :
    LET e == log[i]
        post == After(i).cpu
        t == e.arg[2]
        n == Len(e.trace)
    IN  Returned(e, "RunToPc") =>
          /\ e.ret = TRUE <=> \E k \in 1 .. n : e.trace[k] = t
          /\ e.ret = TRUE =>
               /\ n >= 1 /\ e.trace[n] = t /\ post.pc = t
               /\ \A k \in 1 .. n - 1 : e.trace[k] # t
          /\ e.ret = FALSE => post.tick_count >= TICKS_PER_SCANLINE

C17_Witness ==
  /\ Len(log) >= 1
  /\ Returned(log[1], "RunToPc") /\ log[1].arg[2] = \h8000
  /\ log[1].before.pc = \h8000
  /\ log[1].trace = <<\h8001, \h8002, \h8000>>
  /\ log[1].ret = TRUE /\ After(1).cpu.pc = \h8000

\* C18: with RunToScanline, run_until_condition returns true iff tick_count reached
\* TICKS_PER_SCANLINE through an instruction executed during the call, and on every
\* return tick_count >= TICKS_PER_SCANLINE.
C18_RunToScanline ==
  \A i \in Steps :
    LET e == log[i]
        post == After(i).cpu
    IN  Returned(e, "RunToScanline") =>
          /\ e.ret = TRUE <=> /\ e.before.tick_count < TICKS_PER_SCANLINE
                              /\ Len(e.trace) >= 1
                              /\ post.tick_count >= TICKS_PER_SCANLINE
          /\ post.tick_count >= TICKS_PER_SCANLINE

C18_Witness ==
  /\ Len(log) = 2
  /\ Returned(log[1], "RunToScanline") /\ log[1].ret = TRUE
  /\ log[1].before.tick_count = 0 /\ Len(log[1].trace) = 6
  /\ Returned(log[2], "RunToScanline") /\ log[2].ret = FALSE
  /\ log[2].trace = << >>
  /\ cpu.tick_count = 14

\* C19: with RunFrame, run_until_condition never returns true: it returns false, and
\* on return tick_count >= TICKS_PER_SCANLINE.
C19_RunFrame ==
  \A i \in Steps :
    LET e == log[i]
    IN  Returned(e, "RunFrame") =>
          e.ret = FALSE /\ After(i).cpu.tick_count >= TICKS_PER_SCANLINE

C19_Witness ==
  /\ Len(log) >= 1
  /\ Returned(log[1], "RunFrame") /\ log[1].ret = FALSE
  /\ log[1].before.tick_count = 0 /\ Len(log[1].trace) = 6
  /\ After(1).cpu.tick_count = 14

\* C20: the tick budget is per call: every call with RunToScanline or RunFrame, the
\* second and later ones included, executes at least one instruction and so adds
\* cycles to tick_count, when every opcode it fetches is recognised.
C20_BudgetPerCall ==
  \A i \in Steps :
    LET e == log[i]
    IN  ((\A j \in 1 .. i : Returned(log[j], "RunToScanline") \/ Returned(log[j], "RunFrame"))
           /\ read_u8(e.bmem, e.before.pc) \in Handled) =>
          Len(e.trace) >= 1 /\ Ticks(i) > 0

(***************************************************************************)
(* SpecTicks: sequences of reset, push_u16, fetch_and_execute and          *)
(* run_until_condition calls, from each recognised opcode at 0x8000 with   *)
(* the reset vector 0x9234 and INX in the rest of memory.                  *)
(***************************************************************************)
InitTicks ==
  /\ \E op \in Handled :
       /\ cpu = [new EXCEPT !.pc = \h8000]
       /\ mem = Load(\h8000, <<op, \h10, \h12>>) @@ Load(\hfffc, <<\h34, \h92>>)
  /\ rest = INX
  /\ overflow_checks = TRUE
  /\ panicked = FALSE
  /\ log = << >>

NextTicks == Reset \/ PushU16 \/ FetchAndExecute \/ RunUntilCondition

SpecTicks == InitTicks /\ [][NextTicks]_vars

\* C21: reset sets pc to the little-endian word at 0xFFFC/0xFFFD and leaves a, x, y,
\* sp, the seven flags, tick_count and memory unchanged.
C21_Reset ==
  \A i \in Steps :
    LET e == log[i]
        post == After(i)
    IN  (e.op = "reset" /\ e.done) =>
          /\ post.cpu.pc = read_u8(e.bmem, \hfffc) + 256 * read_u8(e.bmem, \hfffd)
          /\ <<post.cpu.a, post.cpu.x, post.cpu.y, post.cpu.sp>>
               = <<e.before.a, e.before.x, e.before.y, e.before.sp>>
          /\ Flags(post.cpu) = Flags(e.before)
          /\ post.cpu.tick_count = e.before.tick_count
          /\ SameMem(post.mem, e.bmem)

C21_Witness ==
  /\ Len(log) >= 2
  /\ Ran(log[1], INX)
  /\ log[2].op = "reset" /\ log[2].done
  /\ log[2].before.pc = \h8001 /\ log[2].before.x = 1 /\ log[2].before.tick_count = 2
  /\ After(2).cpu.pc = \h9234 /\ After(2).cpu.x = 1 /\ After(2).cpu.tick_count = 2

\* the calls C22 speaks of
TickCalls == {"reset", "push_u16", "fetch_and_execute", "run_until_condition"}

JMP_ABSOLUTE == 76

JMP_INDIRECT == 108

\* the operand words of the jump
Pointers == {\h1280, \h12fe, \h12ff, \h00ff, \h90ff}

InitJump ==
  /\ \E op \in {JMP_ABSOLUTE, JMP_INDIRECT}, ptr \in Pointers, r \in ByteSet,
        fl \in FlagPatterns :
       /\ cpu = [new EXCEPT !.pc = \h8000, !.a = r, !.x = r, !.y = r, !.sp = r,
                            !.carry = fl[1], !.overflow = fl[2], !.decimal = fl[3],
                            !.interrupt = fl[4], !.brk = fl[5], !.zero = fl[1],
                            !.sign = fl[2]]
       /\ mem = Load(\h8000, <<op, ptr % 256, ptr \div 256>>)
                  @@ Load(ptr, <<\h34, \h56>>)
                  @@ Load(ptr - (ptr % 256), <<\h78>>)
  /\ rest = INX
  /\ overflow_checks \in BOOLEAN
  /\ panicked = FALSE
  /\ log = << >>

NextJump == FetchAndExecute

SpecJump == InitJump /\ [][NextJump]_vars

\* the operand word of the logged jump
JumpOperand(e) ==
  read_u8(e.bmem, (e.before.pc + 1) % 65536)
    + 256 * read_u8(e.bmem, (e.before.pc + 2) % 65536)

\* the target of an indirect jump through ptr on the hardware: the high byte comes
\* from the start of the page when ptr is the last byte of a page
QuirkTarget(m, ptr) ==
  IF ptr % 256 = 255 THEN read_u8(m, ptr) + 256 * read_u8(m, ptr - 255)
  ELSE read_u8(m, ptr) + 256 * read_u8(m, (ptr + 1) % 65536)

\* C23: JMP indirect through a pointer with low byte 0xFF takes the low byte of its
\* target from the pointer and the high byte from the first byte of the same page;
\* through any other pointer the target is the little-endian word at the pointer.
\* JMP absolute sets pc to its operand word.  Both leave a, x, y, sp and the flags
\* unchanged.
C23_JumpTarget ==
  \A i \in Steps :
    LET e == log[i]
        post == After(i).cpu
    IN  RanOneOf(e, {JMP_ABSOLUTE, JMP_INDIRECT}) =>
          /\ post.pc = IF e.arg = JMP_ABSOLUTE THEN JumpOperand(e)
                       ELSE QuirkTarget(e.bmem, JumpOperand(e))
          /\ <<post.a, post.x, post.y, post.sp>>
               = <<e.before.a, e.before.x, e.before.y, e.before.sp>>
          /\ Flags(post) = Flags(e.before)

(***************************************************************************)
(* SpecAll: each recognised opcode, in the middle of memory, below the     *)
(* signed 16-bit limit and at the last two addresses, with operand bytes,  *)
(* index registers and memory contents at both ends of their range, in a   *)
(* build with and in a build without overflow checks.                      *)
(***************************************************************************)
AllPcs == {\h8000, \h7ffd, \hfffe, \hffff}

InitAll ==
  /\ \E op \in Handled, pc \in AllPcs, arg1 \in {\h01, \hff}, arg2 \in {\h12, \hff},
        index \in {\h00, \hff} :
       /\ cpu = [new EXCEPT !.pc = pc, !.a = \h5a, !.x = index, !.y = index]
       /\ mem = Load(pc, <<op, arg1, arg2>>)
  /\ rest \in {INX, \hff}
  /\ overflow_checks \in BOOLEAN
  /\ panicked = FALSE
  /\ log = << >>

NextAll == FetchAndExecute

SpecAll == InitAll /\ [][NextAll]_vars

\* C24: no instruction fails on arithmetic overflow: fetch_and_execute completes for
\* every pc, every operand and every index register value, the addresses pc + 1 and
\* pc + 2, the pc advance, the indexed effective addresses, the RTS return address and
\* the branch page test being computed modulo 65536.
C24_NoOverflowFailure ==
  \A i \in Steps : log[i].op = "fetch_and_execute" => log[i].done

\* the opcodes of the implied and accumulator forms
OneByteOpcodes ==
  {\h08, \h18, \h28, \h32, \h33, \h34, \h38, \h48, \h58, \h68, \h78, \h88, \h8a, \h98,
   \h9a, \ha8, \haa, \hb8, \hba, \hc8, \hca, \hd8, \he8, \hf8,
   \h0a, \h2a, \h4a, \h6a}

\* the opcodes of the immediate, zero-page, zero-page-indexed, (indirect,X) and
\* (indirect),Y forms
TwoByteOpcodes ==
  {\h09, \h29, \h49, \h69, \ha0, \ha2, \ha9, \hc0, \hc9, \he0, \he9,
   \h05, \h06, \h24, \h25, \h26, \h45, \h46, \h65, \h66, \h84, \h85, \h86, \ha4, \ha5,
   \ha6, \hc4, \hc5, \hc6, \he4, \he5, \he6,
   \h15, \h16, \h35, \h36, \h55, \h56, \h75, \h76, \h94, \h95, \hb4, \hb5, \hd5, \hd6,
   \hf5, \hf6, \h96, \hb6,
   \h01, \h21, \h41, \h61, \h81, \ha1, \hc1, \he1,
   \h11, \h31, \h51, \h71, \h91, \hb1, \hd1, \hf1}

\* the opcodes of the absolute and absolute-indexed forms
ThreeByteOpcodes ==
  {\h0d, \h0e, \h2c, \h2d, \h2e, \h4d, \h4e, \h6d, \h6e, \h8c, \h8d, \h8e, \hac, \had,
   \hae, \hcc, \hcd, \hce, \hec, \hed, \hee,
   \h1d, \h1e, \h3d, \h3e, \h5d, \h5e, \h7d, \h7e, \h9d, \hbc, \hbd, \hdd, \hde, \hfd,
   \hfe,
   \h19, \h39, \h59, \h79, \h99, \hb9, \hbe, \hd9, \hf9}

\* the branches, JMP, JSR, RTS, RTI and BRK
ControlOpcodes == BranchOpcodes \cup {JMP_ABSOLUTE, JMP_INDIRECT, JSR, RTS, RTI, BRK}

\* the encoded length of an instruction
EncodedLength(op) ==
  CASE op \in OneByteOpcodes -> 1
    [] op \in TwoByteOpcodes -> 2
    [] op \in ThreeByteOpcodes -> 3

\* C30: one fetch_and_execute of a recognised opcode that is no branch, JMP, JSR, RTS,
\* RTI or BRK advances pc by the encoded length of the instruction: 1 for the implied
\* and accumulator forms, 2 for the immediate, zero-page, zero-page-indexed,
\* (indirect,X) and (indirect),Y forms, 3 for the absolute and absolute-indexed forms.
C30_PcAdvance ==
  /\ Handled \ ControlOpcodes = OneByteOpcodes \cup TwoByteOpcodes \cup ThreeByteOpcodes
  /\ \A i \in Steps :
       LET e == log[i]
       IN  RanOneOf(e, Handled \ ControlOpcodes) =>
             After(i).cpu.pc = (e.before.pc + EncodedLength(e.arg)) % 65536

C30_Witness ==
  /\ Len(log) >= 2
  /\ Ran(log[1], \h8d) /\ log[1].before.pc = \h8000 /\ After(1).cpu.pc = \h8003
  /\ Ran(log[2], INX) /\ After(2).cpu.pc = \h8004

(***************************************************************************)
(* SpecShift: one ASL, LSR, ROL or ROR opcode at 0x8000, in each of its    *)
(* addressing modes, the accumulator and the memory operand drawn          *)
(* independently of each other.                                            *)
(***************************************************************************)
AslOpcodes == {\h0a, \h06, \h16, \h0e, \h1e}

LsrOpcodes == {\h4a, \h46, \h56, \h4e, \h5e}

RolOpcodes == {\h2a, \h26, \h36, \h2e, \h3e}

RorOpcodes == {\h6a, \h66, \h76, \h6e, \h7e}

ShiftOpcodes == AslOpcodes \cup LsrOpcodes \cup RolOpcodes \cup RorOpcodes

AccumulatorShifts == {\h0a, \h4a, \h2a, \h6a}

InitShift ==
  /\ \E op \in ShiftOpcodes, arg1 \in ZeroPageOperands, a \in ByteSet, x \in {0, 1},
        carry \in BOOLEAN :
       /\ cpu = [new EXCEPT !.pc = \h8000, !.a = a, !.x = x, !.carry = carry]
       /\ mem = Load(\h8000, <<op, arg1, \h12>>)
  /\ rest \in ByteSet
  /\ overflow_checks = TRUE
  /\ panicked = FALSE
  /\ log = << >>

NextShift == FetchAndExecute

SpecShift == InitShift /\ [][NextShift]_vars

\* the address a shift or rotate opcode in a memory mode names
ShiftAddress(e) ==
  LET o1 == read_u8(e.bmem, (e.before.pc + 1) % 65536)
      o2 == read_u8(e.bmem, (e.before.pc + 2) % 65536)
  IN  CASE e.arg \in {\h06, \h46, \h26, \h66} -> o1
        [] e.arg \in {\h16, \h56, \h36, \h76} -> (o1 + e.before.x) % 256
        [] e.arg \in {\h0e, \h4e, \h2e, \h6e} -> o1 + 256 * o2
        [] e.arg \in {\h1e, \h5e, \h3e, \h7e} -> (o1 + 256 * o2 + e.before.x) % 65536

\* the operand of the logged shift or rotate, in processor c and memory m: the
\* accumulator in accumulator mode, the byte at the named address otherwise
ShiftOperand(e, c, m) ==
  IF e.arg \in AccumulatorShifts THEN c.a ELSE read_u8(m, ShiftAddress(e))

\* C26: ROL of v with carry c leaves ((v * 2) mod 256) + c, within 0..255, and carry =
\* old bit 7 of v; ROR leaves (v div 2) + 128 * c and carry = old bit 0 of v; zero and
\* sign are those of the 8-bit value left.
C26_Rotate ==
  \A i \in Steps :
    LET e == log[i]
        post == After(i)
        v == ShiftOperand(e, e.before, e.bmem)
        nv == ShiftOperand(e, post.cpu, post.mem)
        c == IF e.before.carry THEN 1 ELSE 0
    IN  /\ RanOneOf(e, RolOpcodes) =>
              /\ nv = ((v * 2) % 256) + c
              /\ nv \in U8
              /\ post.cpu.carry <=> v >= 128
              /\ ZeroSignOf(post.cpu, nv)
        /\ RanOneOf(e, RorOpcodes) =>
              /\ nv = (v \div 2) + 128 * c
              /\ post.cpu.carry <=> v % 2 = 1
              /\ ZeroSignOf(post.cpu, nv)

C26_Witness ==
  /\ Len(log) >= 1
  /\ Ran(log[1], \h26)
  /\ log[1].before.carry /\ log[1].before.a = 0
  /\ ShiftOperand(log[1], log[1].before, log[1].bmem) = \hff
  /\ ShiftOperand(log[1], After(1).cpu, After(1).mem) = \hff
  /\ After(1).cpu.carry /\ After(1).cpu.sign /\ ~After(1).cpu.zero

\* C27: after ASL and LSR in every addressing mode carry is the bit shifted out of
\* the operand (bit 7 for ASL, bit 0 for LSR; the operand is the memory byte in the
\* memory modes and the accumulator in accumulator mode); the result, (v * 2) mod 256
\* resp. v div 2, is written back to the same location, with zero and sign from it.
C27_ShiftCarry ==
  \A i \in Steps :
    LET e == log[i]
        post == After(i)
        v == ShiftOperand(e, e.before, e.bmem)
        nv == ShiftOperand(e, post.cpu, post.mem)
    IN  /\ RanOneOf(e, AslOpcodes) =>
              /\ post.cpu.carry <=> v >= 128
              /\ nv = (v * 2) % 256
              /\ ZeroSignOf(post.cpu, nv)
        /\ RanOneOf(e, LsrOpcodes) =>
              /\ post.cpu.carry <=> v % 2 = 1
              /\ nv = v \div 2
              /\ ZeroSignOf(post.cpu, nv)

(***************************************************************************)
(* SpecCompare: one CMP, CPX or CPY opcode at 0x8000, in each of its       *)
(* addressing modes, the registers and the operand drawn independently.    *)
(***************************************************************************)
CmpOpcodes == {\hc9, \hc5, \hd5, \hcd, \hdd, \hd9, \hc1, \hd1}

CpxOpcodes == {\he0, \he4, \hec}

CpyOpcodes == {\hc0, \hc4, \hcc}

InitCompare ==
  /\ \E op \in CmpOpcodes \cup CpxOpcodes \cup CpyOpcodes, arg1 \in ByteSet,
        r \in ByteSet, fl \in FlagPatterns :
       /\ cpu = [new EXCEPT !.pc = \h8000, !.a = r, !.x = r, !.y = r,
                            !.carry = fl[1], !.overflow = fl[2], !.decimal = fl[3],
                            !.interrupt = fl[4], !.brk = fl[5], !.zero = fl[2],
                            !.sign = fl[3]]
       /\ mem = Load(\h8000, <<op, arg1, \h12>>)
  /\ rest \in ByteSet
  /\ overflow_checks = TRUE
  /\ panicked = FALSE
  /\ log = << >>

NextCompare == FetchAndExecute

SpecCompare == InitCompare /\ [][NextCompare]_vars

\* the operand a compare opcode names: its operand byte, or the byte at the address
\* its mode forms from the operand bytes and the index registers
CompareOperand(e) ==
  LET o1 == read_u8(e.bmem, (e.before.pc + 1) % 65536)
      o2 == read_u8(e.bmem, (e.before.pc + 2) % 65536)
      x == e.before.x
      y == e.before.y
  IN  CASE e.arg \in {\hc9, \he0, \hc0} -> o1
        [] e.arg \in {\hc5, \he4, \hc4} -> read_u8(e.bmem, o1)
        [] e.arg = \hd5 -> read_u8(e.bmem, (o1 + x) % 256)
        [] e.arg \in {\hcd, \hec, \hcc} -> read_u8(e.bmem, o1 + 256 * o2)
        [] e.arg = \hdd -> read_u8(e.bmem, (o1 + 256 * o2 + x) % 65536)
        [] e.arg = \hd9 -> read_u8(e.bmem, (o1 + 256 * o2 + y) % 65536)
        [] e.arg = \hc1 -> read_u8(e.bmem, read_u16(e.bmem, (o1 + x) % 256))
        [] e.arg = \hd1 -> read_u8(e.bmem, (read_u16(e.bmem, o1) + y) % 65536)

\* the register a compare opcode compares
Compared(e) ==
  CASE e.arg \in CmpOpcodes -> e.before.a
    [] e.arg \in CpxOpcodes -> e.before.x
    [] e.arg \in CpyOpcodes -> e.before.y

\* C28: CMP, CPX and CPY compare their register r (A, X, Y) with the operand m:
\* afterwards carry = (r >= m), zero = (r = m), sign = bit 7 of (r - m) mod 256, and
\* a, x, y, sp, the overflow, decimal, interrupt-disable and break flags and memory
\* are unchanged.
C28_Compare ==
  \A i \in Steps :
    LET e == log[i]
        post == After(i)
        r == Compared(e)
        m == CompareOperand(e)
    IN  RanOneOf(e, CmpOpcodes \cup CpxOpcodes \cup CpyOpcodes) =>
          /\ post.cpu.carry <=> r >= m
          /\ post.cpu.zero <=> r = m
          /\ post.cpu.sign <=> ((r - m) % 256) >= 128
          /\ <<post.cpu.a, post.cpu.x, post.cpu.y, post.cpu.sp>>
               = <<e.before.a, e.before.x, e.before.y, e.before.sp>>
          /\ <<post.cpu.overflow, post.cpu.decimal, post.cpu.interrupt, post.cpu.brk>>
               = <<e.before.overflow, e.before.decimal, e.before.interrupt,
                   e.before.brk>>
          /\ SameMem(post.mem, e.bmem)

C28_Witness ==
  /\ Len(log) >= 1
  /\ Ran(log[1], \he4)
  /\ Compared(log[1]) = \h01 /\ CompareOperand(log[1]) = \hff
  /\ log[1].before.carry /\ log[1].before.overflow
  /\ ~After(1).cpu.carry /\ ~After(1).cpu.zero /\ ~After(1).cpu.sign
  /\ After(1).cpu.overflow /\ After(1).cpu.x = \h01

(***************************************************************************)
(* SpecStoreLoad: a store through one addressing mode followed by a load   *)
(* through the same mode with the same operand bytes, for each of the      *)
(* eight modes; the zero page holds a pointer at (operand + index) mod 256 *)
(* and one at the operand, and 0x33 fills the rest of memory.              *)
(***************************************************************************)
\* a store opcode, the load opcode of the same addressing mode, and their length
ModePairs ==
  {<<\h85, \ha5, 2>>, <<\h95, \hb5, 2>>, <<\h96, \hb6, 2>>, <<\h8d, \had, 3>>,
   <<\h9d, \hbd, 3>>, <<\h99, \hb9, 3>>, <<\h81, \ha1, 2>>, <<\h91, \hb1, 2>>}

PairedStores == {p[1] : p \in ModePairs}

PairedLoads == {p[2] : p \in ModePairs}

\* the store, then the load, each with the operand bytes arg1 and arg2
StoreThenLoad(p, arg1, arg2) ==
  IF p[3] = 2 THEN <<p[1], arg1, p[2], arg1>>
  ELSE <<p[1], arg1, arg2, p[2], arg1, arg2>>

InitStoreLoad ==
  /\ \E p \in ModePairs, arg1 \in ByteSet, arg2 \in {\h12, \hff}, index \in ByteSet :
       /\ cpu = [new EXCEPT !.pc = \h8000, !.a = \h5a, !.x = index, !.y = index]
       /\ mem = Load(\h8000, StoreThenLoad(p, arg1, arg2))
                  @@ Load((arg1 + index) % 256, <<\h00, \h40>>)
                  @@ Load(arg1, <<\h80, \h40>>)
  /\ rest = \h33
  /\ overflow_checks \in BOOLEAN
  /\ panicked = FALSE
  /\ log = << >>

NextStoreLoad == FetchAndExecute

SpecStoreLoad == InitStoreLoad /\ [][NextStoreLoad]_vars

\* the location in page zero an indexed zero-page access or an (indirect,X) pointer
\* fetch of the logged instruction goes to
ZeroPageLocation(e) ==
  LET o1 == read_u8(e.bmem, (e.before.pc + 1) % 65536)
  IN  CASE e.arg \in {\h95, \hb5, \h81, \ha1} -> (o1 + e.before.x) % 256
        [] e.arg \in {\h96, \hb6} -> (o1 + e.before.y) % 256
        [] OTHER -> o1

\* the effective address of the logged store or load, from its mode, its operand
\* bytes and the index registers
ResolvedAddress(e) ==
  LET o1 == read_u8(e.bmem, (e.before.pc + 1) % 65536)
      o2 == read_u8(e.bmem, (e.before.pc + 2) % 65536)
  IN  CASE e.arg \in {\h85, \ha5, \h95, \hb5, \h96, \hb6} -> ZeroPageLocation(e)
        [] e.arg \in {\h8d, \had} -> o1 + 256 * o2
        [] e.arg \in {\h9d, \hbd} -> (o1 + 256 * o2 + e.before.x) % 65536
        [] e.arg \in {\h99, \hb9} -> (o1 + 256 * o2 + e.before.y) % 65536
        [] e.arg \in {\h81, \ha1} -> read_u16(e.bmem, ZeroPageLocation(e))
        [] e.arg \in {\h91, \hb1} -> (read_u16(e.bmem, o1) + e.before.y) % 65536

\* C29: zero-page index additions wrap modulo 256: a zero-page,X or zero-page,Y access
\* goes to (operand + index) mod 256 and (indirect,X) fetches its pointer at
\* (operand + X) mod 256, all within 0x00..0xFF; and in each addressing mode the write
\* resolver stores to the address the read resolver reads from, for the same operand
\* bytes and index registers.
C29_ResolversAgree ==
  \A i \in Steps :
    LET e == log[i]
        post == After(i)
    IN  /\ RanOneOf(e, PairedStores \cup PairedLoads) => ZeroPageLocation(e) \in 0 .. 255
        /\ RanOneOf(e, PairedStores) =>
             SameMem(post.mem,
                     write_u8(e.bmem, ResolvedAddress(e),
                              IF e.arg = \h96 THEN e.before.x ELSE e.before.a))
        /\ RanOneOf(e, PairedLoads) =>
             (IF e.arg = \hb6 THEN post.cpu.x ELSE post.cpu.a)
               = read_u8(e.bmem, ResolvedAddress(e))

C29_Witness ==
  /\ Len(log) >= 2
  /\ Ran(log[1], \h81) /\ Ran(log[2], \ha1)
  /\ read_u8(log[1].bmem, \h8001) = \hff /\ log[1].before.x = 1
  /\ ZeroPageLocation(log[1]) = 0 /\ ResolvedAddress(log[1]) = \h4000
  /\ read_u8(log[1].bmem, \h4000) = \h33 /\ read_u8(log[2].bmem, \h4000) = \h5a
  /\ ResolvedAddress(log[2]) = \h4000 /\ After(2).cpu.a = \h5a

(***************************************************************************)
(* Further properties of SpecAll.                                          *)
(***************************************************************************)
\* C31: for every opcode the dispatch routes to a handler, the handler's own opcode
\* selection has an arm for it, for the operand and for the charge: the handler's
\* fallback (operand 0, no tick, no pc advance) is never taken, so the instruction
\* adds at least the ticks of its arm and advances pc by the bytes of its arm.
C31_DispatchAgrees ==
  /\ \A op \in Handled : HandlerArm(op)[1] # "unknown"
  /\ \A i \in Steps :
       LET e == log[i]
           arm == HandlerArm(e.arg)
       IN  RanOneOf(e, Handled) =>
             /\ arm[1] # "unknown"
             /\ Ticks(i) >= 1
             /\ arm[1] # "none" =>
                  /\ Ticks(i) >= arm[2] /\ arm[2] >= 2
                  /\ After(i).cpu.pc = (e.before.pc + arm[3]) % 65536

C31_Witness ==
  /\ Len(log) >= 1
  /\ Ran(log[1], \h69) /\ HandlerArm(\h69) = <<"immediate", 2, 2>>
  /\ log[1].before.pc = \h8000 /\ log[1].before.a = \h5a
  /\ read_u8(log[1].bmem, \h8001) = \h01
  /\ After(1).cpu.a = \h5b /\ After(1).cpu.pc = \h8002 /\ Ticks(1) = 2

(***************************************************************************)
(* Further properties of SpecRun.  Its programs store nothing over an      *)
(* instruction, so the opcode a call fetches at a pc is the byte that was  *)
(* there when the call began.                                              *)
(***************************************************************************)
\* the pc of the k-th fetch after the first one of the logged call (k = 0: the first)
FetchPc(e, k) == IF k = 0 THEN e.before.pc ELSE e.trace[k]

\* the fetches of the logged call: one before each pc the trace lists
Fetches(e) == 0 .. Len(e.trace) - 1

\* the break condition of the logged call is RunToPc with the target pc
Targets(e, pc) == e.arg[1] = "RunToPc" /\ e.arg[2] = pc

\* C32: a call of run_until_condition entered with tick_count below
\* TICKS_PER_SCANLINE at an unrecognised opcode, or fetching one later in the call,
\* fetches it for ever and never returns, under each of the four break conditions
\* (the pc of the opcode not being the target of RunToPc).
C32_BadOpcodeHangs ==
  \A i \in Steps :
    LET e == log[i]
    IN  e.op = "run_until_condition" =>
          /\ (/\ e.before.tick_count < TICKS_PER_SCANLINE
              /\ read_u8(e.bmem, e.before.pc) \in BadOpcodes
              /\ ~Targets(e, e.before.pc)) => e.hung /\ ~e.done
          /\ \A k \in Fetches(e) :
               (/\ read_u8(e.bmem, FetchPc(e, k)) \in BadOpcodes
                /\ ~Targets(e, FetchPc(e, k))) => e.hung /\ ~e.done

C32_Witness ==
  /\ Len(log) >= 1
  /\ Called(log[1], "RunToScanline") /\ log[1].hung
  /\ log[1].before.pc = \h8000
  /\ log[1].trace = <<\h8002, \h8003, \h8003>>
  /\ read_u8(log[1].bmem, \h8003) = \hea /\ \hea \in BadOpcodes

\* the instructions a call entered with this tick_count can execute at most, each
\* adding at least one tick
Budget(c) ==
  IF c.tick_count < TICKS_PER_SCANLINE THEN TICKS_PER_SCANLINE - c.tick_count ELSE 0

\* C34: a call of run_until_condition that fetches recognised opcodes only ends, under
\* each of the four break conditions: every instruction adds at least one tick, so it
\* executes no more instructions than ticks are left below TICKS_PER_SCANLINE.
C34_RunTerminates ==
  \A i \in Steps :
    LET e == log[i]
    IN  (/\ e.op = "run_until_condition"
         /\ \A k \in Fetches(e) : read_u8(e.bmem, FetchPc(e, k)) \in Handled) =>
          /\ ~e.hung
          /\ Len(e.trace) <= Budget(e.before)
          /\ e.done => e.ret \in BOOLEAN

C34_Witness ==
  /\ Len(log) >= 1
  /\ Returned(log[1], "RunFrame")
  /\ read_u8(log[1].bmem, \h8000) = JMP_ABSOLUTE /\ log[1].before.pc = \h8000
  /\ log[1].trace = <<\h8000, \h8000, \h8000, \h8000>>
  /\ log[1].ret = FALSE /\ After(1).cpu.tick_count = TICKS_PER_SCANLINE

(***************************************************************************)
(* The read-modify-write instructions, in SpecAll.                         *)
(***************************************************************************)
\* the read-modify-write opcodes of the absolute,X mode: ASL, ROL, LSR, ROR, DEC, INC
RmwAbsoluteX == {\h1e, \h3e, \h5e, \h7e, \hde, \hfe}

\* C36: ASL, ROL, LSR, ROR, DEC and INC in absolute,X mode all add the same number of
\* ticks for the same operand address and X: exactly 7, whether or not base + X
\* crosses a page boundary.
C36_RmwAbsoluteXTicks ==
  \A i \in Steps : RanOneOf(log[i], RmwAbsoluteX) => Ticks(i) = 7

(***************************************************************************)
(* SpecFlags: one store, push, TXS, jump, JSR, RTS or flag instruction at  *)
(* 0x8000, from every combination of the seven flags.                      *)
(***************************************************************************)
StoreOpcodes ==
  {\h85, \h95, \h8d, \h9d, \h99, \h81, \h91, \h86, \h96, \h8e, \h84, \h94, \h8c}

PHA == 72

PHP == 8

TXS == 154

\* the opcodes that are to change no flag
FlagKeepers == StoreOpcodes \cup {PHA, PHP, TXS, JMP_ABSOLUTE, JMP_INDIRECT, JSR, RTS}

\* the flag an opcode that sets or clears a flag works on: CLC, SEC, CLD, SED, CLI,
\* SEI and CLV
FlagOf(op) ==
  CASE op \in {\h18, \h38} -> "carry"
    [] op \in {\hd8, \hf8} -> "decimal"
    [] op \in {\h58, \h78} -> "interrupt"
    [] op = \hb8 -> "overflow"

FlagSetters == {\h18, \h38, \hd8, \hf8, \h58, \h78, \hb8}

InitFlags ==
  /\ \E op \in FlagKeepers \cup FlagSetters, fl \in [1 .. 7 -> BOOLEAN],
        r \in {\h00, \h80} :
       /\ cpu = [new EXCEPT !.pc = \h8000, !.a = r, !.x = r, !.y = r,
                            !.sign = fl[1], !.overflow = fl[2], !.brk = fl[3],
                            !.decimal = fl[4], !.interrupt = fl[5], !.zero = fl[6],
                            !.carry = fl[7]]
       /\ mem = Load(\h8000, <<op, \h10, \h12>>)
  /\ rest = INX
  /\ overflow_checks = TRUE
  /\ panicked = FALSE
  /\ log = << >>

NextFlags == FetchAndExecute

SpecFlags == InitFlags /\ [][NextFlags]_vars

\* the seven flags of c, the flag named f left out of account
FlagsBut(c, f) == Flags([c EXCEPT ![f] = FALSE])

\* C33: STA, STX, STY, PHA, PHP, TXS, JMP, JSR and RTS change none of the seven
\* flags; CLC and SEC change only carry, CLD and SED only decimal, CLI and SEI only
\* interrupt-disable, CLV only overflow.
C33_FlagFrame ==
  \A i \in Steps :
    LET e == log[i]
        post == After(i).cpu
    IN  /\ RanOneOf(e, FlagKeepers) => Flags(post) = Flags(e.before)
        /\ RanOneOf(e, FlagSetters) =>
             FlagsBut(post, FlagOf(e.arg)) = FlagsBut(e.before, FlagOf(e.arg))

C33_Witness ==
  /\ Len(log) >= 2
  /\ Ran(log[1], TXS) /\ log[1].before.x = \h80 /\ After(1).cpu.sp = \h80
  /\ Flags(log[1].before) = <<FALSE, TRUE, FALSE, TRUE, FALSE, TRUE, FALSE>>
  /\ Flags(After(1).cpu) = Flags(log[1].before)
  /\ Ran(log[2], \h10)

(***************************************************************************)
(* SpecStackPointer: each of the 256 opcode bytes at 0x8000, recognised or *)
(* not, from stack pointers at both ends and in the middle of the stack.   *)
(***************************************************************************)
PLA == 104

PLP == 40

InitStackPointer ==
  /\ \E op \in U8, sp \in ByteSet, r \in {\h00, \h80} :
       /\ cpu = [new EXCEPT !.pc = \h8000, !.sp = sp, !.a = r, !.x = r, !.y = r]
       /\ mem = Load(\h8000, <<op, \h10, \h12>>)
  /\ rest = INX
  /\ overflow_checks = TRUE
  /\ panicked = FALSE
  /\ log = << >>

NextStackPointer == FetchAndExecute

SpecStackPointer == InitStackPointer /\ [][NextStackPointer]_vars

\* the bytes an instruction pulls from the stack, less the bytes it pushes
SpChange(op) ==
  CASE op \in {PHA, PHP} -> -1
    [] op \in {PLA, PLP} -> 1
    [] op = JSR -> -2
    [] op = RTS -> 2
    [] op = BRK -> -3
    [] op = RTI -> 3
    [] OTHER -> 0

\* C35: one fetch_and_execute changes sp by -1 (mod 256) for PHA and PHP, +1 for PLA
\* and PLP, -2 for JSR, +2 for RTS, -3 for BRK, +3 for RTI, sets it to X for TXS, and
\* leaves it unchanged for every other opcode, recognised or not.
C35_StackPointerFrame ==
  \A i \in Steps :
    LET e == log[i]
    IN  RanOneOf(e, U8) =>
          After(i).cpu.sp = IF e.arg = TXS THEN e.before.x
                            ELSE (e.before.sp + SpChange(e.arg)) % 256

C35_Witness ==
  /\ Len(log) >= 2
  /\ Ran(log[1], BRK) /\ log[1].before.sp = 1 /\ After(1).cpu.sp = \hfe
  /\ Ran(log[2], INX) /\ After(2).cpu.sp = \hfe

====
